---- MODULE Spec2Model ----
(***************************************************************************)
(* Model of the action-execution core of the Aura desktop assistant:       *)
(*   - ActionAgent.execute_action and its helpers (the Action Dispatcher)  *)
(*   - MainOrchestrator (the Plan Runner, its step timer and the nested    *)
(*     event loop of the credential prompts)                               *)
(***************************************************************************)
EXTENDS Integers, Sequences, FiniteSets, TLC

(***************************************************************************)
(* Python values.  Every value is a tagged record so that values of        *)
(* different Python types can be compared.  A string is a sequence of      *)
(* tokens: a literal symbol, or a double-brace reference ({{name}} is      *)
(* "ref", {{ name }} with whitespace inside the braces is "refws").        *)
(***************************************************************************)
None == [t |-> "none"]
Str(toks) == [t |-> "str", v |-> toks]
Num(n) == [t |-> "num", v |-> n]
Bool(b) == [t |-> "bool", v |-> b]
Lit(s) == [k |-> "lit", s |-> s]
Ref(n) == [k |-> "ref", s |-> n]
RefWs(n) == [k |-> "refws", s |-> n]
S(s) == Str(<<Lit(s)>>)
EmptyStr == Str(<<>>)

\* A message built by an f-string: a fixed text and the values interpolated.
Part(m, a) == [m |-> m, a |-> a]
Msg(parts) == [t |-> "msg", v |-> parts]
M(m, a) == Msg(<<Part(m, a)>>)

\* Python truthiness (bool(x)).
Truthy(x) ==
  CASE x.t = "none" -> FALSE
    [] x.t = "str" -> x.v # <<>>
    [] x.t = "num" -> x.v # 0
    [] x.t = "bool" -> x.v
    [] OTHER -> TRUE

\* Python "a or b".
Or(a, b) == IF Truthy(a) THEN a ELSE b

\* Python str(x) for the values that reach a template substitution.
PyStr(x) ==
  CASE x.t = "str" -> x
    [] x.t = "num" -> S(ToString(x.v))
    [] x.t = "bool" -> S(IF x.v THEN "True" ELSE "False")
    [] x.t = "none" -> S("None")
    [] OTHER -> x

\* Python dicts are functions over a finite set of string keys.
EmptyDict == [x \in {} |-> None]
Get(d, k) == IF k \in DOMAIN d THEN d[k] ELSE None
GetD(d, k, dflt) == IF k \in DOMAIN d THEN d[k] ELSE dflt
Put(d, k, v) == [x \in (DOMAIN d) \cup {k} |-> IF x = k THEN v ELSE d[x]]
Del(d, k) == [x \in (DOMAIN d) \ {k} |-> d[x]]
Update(d, e) == [x \in (DOMAIN d) \cup (DOMAIN e) |-> IF x \in DOMAIN e THEN e[x] ELSE d[x]]
D1(k1, v1) == Put(EmptyDict, k1, v1)
D2(k1, v1, k2, v2) == Put(D1(k1, v1), k2, v2)
D3(k1, v1, k2, v2, k3, v3) == Put(D2(k1, v1, k2, v2), k3, v3)

\* The key a plain string value denotes when it is used as a dict key.
KeyOf(x) == x.v[1].s
\* f"{name}_suffix" used as a dict key.
KeyCat(x, suffix) == x.v[1].s \o suffix

(***************************************************************************)
(* Context Resolver: ActionAgent._resolve_context_variable                 *)
(***************************************************************************)
ResolverPasses == 5
PreviewLen == 25

\* Faulty variant: a reference to an undefined variable is erased.
RECURSIVE SubstPassErasesUndefined(_, _)
SubstPassErasesUndefined(toks, ctx) ==
  IF toks = <<>> THEN <<>>
  ELSE LET h == Head(toks)
       IN (IF h.k = "lit" THEN <<h>>
           ELSE IF h.s \in DOMAIN ctx THEN PyStr(ctx[h.s]).v
           ELSE <<>>) \o SubstPassErasesUndefined(Tail(toks), ctx)

\* One re.sub pass: replace_match on every reference.
RECURSIVE SubstPass(_, _)
SubstPass(toks, ctx) ==
  IF toks = <<>> THEN <<>>
  ELSE LET h == Head(toks)
       IN (IF h.k = "lit" THEN <<h>>
           ELSE IF h.s \in DOMAIN ctx THEN PyStr(ctx[h.s]).v
           ELSE <<Ref(h.s)>>) \o SubstPass(Tail(toks), ctx)

\* for _ in range(5): stop at the first pass that changes nothing.
RECURSIVE ResolveLoop(_, _, _)
ResolveLoop(toks, ctx, n) ==
  IF n = 0 THEN toks
  ELSE LET new_text == SubstPass(toks, ctx)
       IN IF new_text = toks THEN toks ELSE ResolveLoop(new_text, ctx, n - 1)

\* None stays None; a non-string makes re.sub raise, which is caught and the
\* template is returned unchanged.
Resolve(text_template, ctx) ==
  IF text_template.t = "none" THEN None
  ELSE IF text_template.t # "str" THEN text_template
  ELSE Str(ResolveLoop(text_template.v, ctx, ResolverPasses))

\* ActionAgent._get_effective_target_title
EffectiveTargetTitle(parameters, ctx) ==
  LET target_title_param == Get(parameters, "target_window_title")
  IN IF Truthy(target_title_param) THEN Resolve(target_title_param, ctx)
     ELSE Get(ctx, "last_opened_window_title")

\* ActionAgent._get_loggable_text.  '"{{" in text_template' and
\* len(resolved_text) raise TypeError when the value is not a string.
\* var_name.endswith("_password"), over the variable names of the model.
NameStems == {"svc", "mail"}
EndsWithPassword(n) == \E stem \in NameStems : n = stem \o "_password"
HasRef(toks) == \E i \in 1..Len(toks) : toks[i].k # "lit"
Preview(x) ==
  IF Len(x.v) > PreviewLen THEN Str(SubSeq(x.v, 1, PreviewLen) \o <<Lit("...")>>) ELSE x
LoggableText(text_template, resolved_text, ctx) ==
  IF (Truthy(text_template) /\ text_template.t # "str") \/ resolved_text.t # "str"
  THEN [raised |-> TRUE, text |-> None]
  ELSE LET is_password_field ==
             /\ Truthy(text_template)
             /\ HasRef(text_template.v)
             /\ \E i \in 1..Len(text_template.v) :
                  LET tk == text_template.v[i]
                  IN /\ tk.k # "lit"
                     /\ EndsWithPassword(tk.s)
                     /\ tk.s \in DOMAIN ctx
                     /\ PyStr(ctx[tk.s]) = resolved_text
       IN [raised |-> FALSE,
           text |-> IF is_password_field THEN S("*******") ELSE Preview(resolved_text)]

(***************************************************************************)
(* Action Dispatcher: ActionAgent.execute_action                           *)
(*                                                                         *)
(* env holds which collaborators the agent was built with and what each    *)
(* collaborator call answers.  A handler yields the success flag, the      *)
(* result data (is_none: action_result_data is None), the collaborator     *)
(* calls it made in order, and whether an exception left execute_action.   *)
(***************************************************************************)
Call(op, a) == [op |-> op, a |-> a]
H(success, is_none, data, calls) ==
  [raised |-> FALSE, success |-> success, is_none |-> is_none, data |-> data, calls |-> calls]
Ok(data, calls) == H(TRUE, FALSE, data, calls)
OkNone(calls) == H(TRUE, TRUE, EmptyDict, calls)
Fail(data, calls) == H(FALSE, FALSE, data, calls)
Raised(calls) ==
  [raised |-> TRUE, success |-> FALSE, is_none |-> TRUE, data |-> EmptyDict, calls |-> calls]
ErrD(m, a) == D1("error", M(m, a))

\* action_result_data["error"] = (action_result_data.get("error", "") + text).strip()
AppendError(data, m, a) ==
  Put(data, "error",
      Msg((IF "error" \in DOMAIN data THEN data["error"].v ELSE <<>>) \o <<Part(m, a)>>))

\* Faulty variant: the screenshot's origin is never added.
MapCoordsNoOffset(rel_x, rel_y, ss_bounds) == <<rel_x, rel_y>>

\* Coordinate Mapper: the inline mapping of a vision result to screen coordinates.
MapCoords(rel_x, rel_y, ss_bounds) ==
  IF ss_bounds.some /\ ss_bounds.w # -1
  THEN <<ss_bounds.l + rel_x, ss_bounds.t + rel_y>>
  ELSE <<rel_x, rel_y>>

\* coords_info and coords_info.get("found") and coords_info.get("x_center") is not None
VisionUsable(vision) ==
  /\ vision.some
  /\ DOMAIN vision.d # {}
  /\ Truthy(Get(vision.d, "found"))
  /\ Get(vision.d, "x_center") # None
\* coords_info["x_center"], coords_info["y_center"] and the additions raise
\* when y_center is missing or a coordinate is not a number.
VisionCoordsRaise(vision, ss_bounds) ==
  \/ "y_center" \notin DOMAIN vision.d
  \/ /\ ss_bounds.some /\ ss_bounds.w # -1
     /\ (vision.d["x_center"].t # "num" \/ vision.d["y_center"].t # "num")
VisionAbs(vision, ss_bounds) ==
  IF vision.d["x_center"].t = "num" /\ vision.d["y_center"].t = "num"
  THEN MapCoords(vision.d["x_center"].v, vision.d["y_center"].v, ss_bounds)
  ELSE <<0, 0>>
VisionReason(vision) ==
  IF vision.some /\ DOMAIN vision.d # {}
  THEN GetD(vision.d, "reasoning", S("Not found")) ELSE S("Perception fail.")

\* Faulty variants of the click handler: one falls through to the vision tier when the
\* window is not found, one drops the accessibility warning on a vision success.
ClickByAccessibilityNoShortCircuit(p, ctx, env, eff) ==
  LET target_win_title == Or(Resolve(Get(p, "target_window_title"), ctx), eff)
      element_name == Resolve(Get(p, "element_name"), ctx)
      desc == Or(Or(element_name, Get(p, "element_description")), S("the described element"))
      c_win == <<Call("_get_window", <<target_win_title>>)>>
      c_vis == c_win \o <<Call("get_element_coordinates_via_vision", <<desc, eff>>)>>
  IN IF ~Truthy(target_win_title)
        \/ ~(Truthy(element_name) \/ Truthy(Get(p, "automation_id")) \/ Truthy(Get(p, "class_name_re")))
     THEN Fail(ErrD("Missing target_window_title or element identifier for click_element_by_accessibility.", <<>>), <<>>)
     ELSE IF ~env.win_found /\ VisionUsable(env.vision)
     THEN Ok(D1("info", M("Clicked (fallback vision) at coordinates.", <<desc>>)), c_vis)
     ELSE IF ~env.win_found
     THEN Fail(ErrD("Vision fallback: Element not found.", <<desc>>), c_vis)
     ELSE Ok(D1("info", M("Clicked element in window via accessibility.", <<element_name, target_win_title>>)), c_win)
ClickByAccessibilityDropsWarning(p, ctx, env, eff) ==
  LET target_win_title == Or(Resolve(Get(p, "target_window_title"), ctx), eff)
      element_name == Resolve(Get(p, "element_name"), ctx)
      control_type == Get(p, "control_type")
      automation_id == Get(p, "automation_id")
      class_name_re == Get(p, "class_name_re")
      elem_id == Or(element_name, automation_id)
      desc == Or(Or(element_name, Get(p, "element_description")), S("the described element"))
      c_win == <<Call("_get_window", <<target_win_title>>)>>
      c_find == c_win \o <<Call("find_element", <<element_name, control_type, automation_id>>)>>
      c_acc == IF env.elem_found THEN c_find \o <<Call("click_element", <<>>)>> ELSE c_find
      warn == D2("warning_accessibility_failed",
                 M("Element not found or click failed via accessibility in window.",
                   <<elem_id, control_type, target_win_title>>),
                 "info", M("Attempting vision-based fallback...", <<>>))
      c_act == IF Truthy(eff) THEN c_acc \o <<Call("activate_window", <<eff>>)>> ELSE c_acc
      c_vis == c_act \o <<Call("get_element_coordinates_via_vision", <<desc, eff>>)>>
      abs == VisionAbs(env.vision, env.ss_bounds)
      c_clk == c_vis \o <<Call("click_at", <<abs[1], abs[2]>>)>>
  IN IF ~Truthy(target_win_title)
        \/ ~(Truthy(element_name) \/ Truthy(automation_id) \/ Truthy(class_name_re))
     THEN Fail(ErrD("Missing target_window_title or element identifier for click_element_by_accessibility.", <<>>), <<>>)
     ELSE IF ~env.win_found
     THEN Fail(ErrD("Window not found for accessibility click.", <<target_win_title>>), c_win)
     ELSE IF env.elem_found /\ env.acc_click_ok
     THEN Ok(D1("info", M("Clicked element in window via accessibility.", <<elem_id, target_win_title>>)), c_acc)
     ELSE IF ~env.has_perception
     THEN Fail(AppendError(warn, "PerceptionAgent unavailable for fallback.", <<>>), c_acc)
     ELSE IF Truthy(eff) /\ ~env.activate_ok
     THEN Fail(AppendError(warn, "Could not activate window for vision fallback.", <<eff>>), c_act)
     ELSE IF ~VisionUsable(env.vision)
     THEN Fail(AppendError(warn, "Vision fallback: Element not found.", <<desc, VisionReason(env.vision)>>), c_vis)
     ELSE IF VisionCoordsRaise(env.vision, env.ss_bounds) THEN Raised(c_vis)
     ELSE IF env.click_at_ok
     THEN Ok(D1("info", M("Clicked (fallback vision) at coordinates.", <<desc, Num(abs[1]), Num(abs[2])>>)), c_clk)
     ELSE Fail(AppendError(warn, "Vision fallback click failed at coordinates.", <<Num(abs[1]), Num(abs[2])>>), c_clk)

\* Faulty variant: the window is activated for vision before accessibility is tried.
ClickByAccessibilityActivatesFirst(p, ctx, env, eff) ==
  LET target_win_title == Or(Resolve(Get(p, "target_window_title"), ctx), eff)
      element_name == Resolve(Get(p, "element_name"), ctx)
      control_type == Get(p, "control_type")
      automation_id == Get(p, "automation_id")
      class_name_re == Get(p, "class_name_re")
      elem_id == Or(element_name, automation_id)
      desc == Or(Or(element_name, Get(p, "element_description")), S("the described element"))
      c_pre == IF Truthy(eff) THEN <<Call("activate_window", <<eff>>)>> ELSE <<>>
      c_win == c_pre \o <<Call("_get_window", <<target_win_title>>)>>
      c_find == c_win \o <<Call("find_element", <<element_name, control_type, automation_id>>)>>
      c_acc == IF env.elem_found THEN c_find \o <<Call("click_element", <<>>)>> ELSE c_find
      warn == D2("warning_accessibility_failed",
                 M("Element not found or click failed via accessibility in window.",
                   <<elem_id, control_type, target_win_title>>),
                 "info", M("Attempting vision-based fallback...", <<>>))
      c_vis == c_acc \o <<Call("get_element_coordinates_via_vision", <<desc, eff>>)>>
      abs == VisionAbs(env.vision, env.ss_bounds)
      c_clk == c_vis \o <<Call("click_at", <<abs[1], abs[2]>>)>>
  IN IF ~Truthy(target_win_title)
        \/ ~(Truthy(element_name) \/ Truthy(automation_id) \/ Truthy(class_name_re))
     THEN Fail(ErrD("Missing target_window_title or element identifier for click_element_by_accessibility.", <<>>), <<>>)
     ELSE IF ~env.win_found
     THEN Fail(ErrD("Window not found for accessibility click.", <<target_win_title>>), c_win)
     ELSE IF env.elem_found /\ env.acc_click_ok
     THEN Ok(D1("info", M("Clicked element in window via accessibility.", <<elem_id, target_win_title>>)), c_acc)
     ELSE IF ~env.has_perception
     THEN Fail(AppendError(warn, "PerceptionAgent unavailable for fallback.", <<>>), c_acc)
     ELSE IF Truthy(eff) /\ ~env.activate_ok
     THEN Fail(AppendError(warn, "Could not activate window for vision fallback.", <<eff>>), c_acc)
     ELSE IF ~VisionUsable(env.vision)
     THEN Fail(AppendError(warn, "Vision fallback: Element not found.", <<desc, VisionReason(env.vision)>>), c_vis)
     ELSE IF VisionCoordsRaise(env.vision, env.ss_bounds) THEN Raised(c_vis)
     ELSE IF env.click_at_ok
     THEN Ok(Put(warn, "info", M("Clicked (fallback vision) at coordinates.", <<desc, Num(abs[1]), Num(abs[2])>>)), c_clk)
     ELSE Fail(AppendError(warn, "Vision fallback click failed at coordinates.", <<Num(abs[1]), Num(abs[2])>>), c_clk)

\* click_element_by_accessibility
ClickByAccessibility(p, ctx, env, eff) ==
  LET target_win_title == Or(Resolve(Get(p, "target_window_title"), ctx), eff)
      element_name == Resolve(Get(p, "element_name"), ctx)
      control_type == Get(p, "control_type")
      automation_id == Get(p, "automation_id")
      class_name_re == Get(p, "class_name_re")
      elem_id == Or(element_name, automation_id)
      desc == Or(Or(element_name, Get(p, "element_description")), S("the described element"))
      c_win == <<Call("_get_window", <<target_win_title>>)>>
      c_find == c_win \o <<Call("find_element", <<element_name, control_type, automation_id>>)>>
      c_acc == IF env.elem_found THEN c_find \o <<Call("click_element", <<>>)>> ELSE c_find
      warn == D2("warning_accessibility_failed",
                 M("Element not found or click failed via accessibility in window.",
                   <<elem_id, control_type, target_win_title>>),
                 "info", M("Attempting vision-based fallback...", <<>>))
      c_act == IF Truthy(eff) THEN c_acc \o <<Call("activate_window", <<eff>>)>> ELSE c_acc
      c_vis == c_act \o <<Call("get_element_coordinates_via_vision", <<desc, eff>>)>>
      abs == VisionAbs(env.vision, env.ss_bounds)
      c_clk == c_vis \o <<Call("click_at", <<abs[1], abs[2]>>)>>
  IN IF ~Truthy(target_win_title)
        \/ ~(Truthy(element_name) \/ Truthy(automation_id) \/ Truthy(class_name_re))
     THEN Fail(ErrD("Missing target_window_title or element identifier for click_element_by_accessibility.", <<>>), <<>>)
     ELSE IF ~env.win_found
     THEN Fail(ErrD("Window not found for accessibility click.", <<target_win_title>>), c_win)
     ELSE IF env.elem_found /\ env.acc_click_ok
     THEN Ok(D1("info", M("Clicked element in window via accessibility.", <<elem_id, target_win_title>>)), c_acc)
     ELSE IF ~env.has_perception
     THEN Fail(AppendError(warn, "PerceptionAgent unavailable for fallback.", <<>>), c_acc)
     ELSE IF Truthy(eff) /\ ~env.activate_ok
     THEN Fail(AppendError(warn, "Could not activate window for vision fallback.", <<eff>>), c_act)
     ELSE IF ~VisionUsable(env.vision)
     THEN Fail(AppendError(warn, "Vision fallback: Element not found.", <<desc, VisionReason(env.vision)>>), c_vis)
     ELSE IF VisionCoordsRaise(env.vision, env.ss_bounds) THEN Raised(c_vis)
     ELSE IF env.click_at_ok
     THEN Ok(Put(warn, "info", M("Clicked (fallback vision) at coordinates.", <<desc, Num(abs[1]), Num(abs[2])>>)), c_clk)
     ELSE Fail(AppendError(warn, "Vision fallback click failed at coordinates.", <<Num(abs[1]), Num(abs[2])>>), c_clk)

\* type_text_into_element_by_accessibility
TypeByAccessibility(p, ctx, env, eff) ==
  LET text_template == Get(p, "text_to_type")
      target_win_title == Or(Resolve(Get(p, "target_window_title"), ctx), eff)
      element_name == Resolve(Get(p, "element_name"), ctx)
      control_type == GetD(p, "control_type", S("Edit"))
      automation_id == Get(p, "automation_id")
      class_name_re == Get(p, "class_name_re")
      elem_id == Or(element_name, automation_id)
      desc == Or(Or(element_name, Get(p, "element_description")), S("the described text field"))
      text_to_type == Resolve(text_template, ctx)
      c_win == <<Call("_get_window", <<target_win_title>>)>>
      c_find == c_win \o <<Call("find_element", <<element_name, control_type, automation_id>>)>>
      c_clk0 == c_find \o <<Call("click_element", <<>>)>>
      c_set == c_clk0 \o <<Call("set_element_text", <<text_to_type>>)>>
      warn == D2("warning_accessibility_failed",
                 M("Failed to set text for element via accessibility.", <<elem_id>>),
                 "info", M("Attempting vision-based type fallback...", <<>>))
      c_act == IF Truthy(eff) THEN c_set \o <<Call("activate_window", <<eff>>)>> ELSE c_set
      c_vis == c_act \o <<Call("get_element_coordinates_via_vision", <<desc, eff>>)>>
      abs == VisionAbs(env.vision, env.ss_bounds)
      c_clk == c_vis \o <<Call("click_at", <<abs[1], abs[2]>>)>>
      c_typ == c_clk \o <<Call("type_text", <<text_to_type, None>>)>>
  IN IF ~Truthy(text_template) \/ ~Truthy(target_win_title)
        \/ ~(Truthy(element_name) \/ Truthy(automation_id) \/ Truthy(class_name_re))
     THEN Fail(ErrD("Missing parameters for type_text_into_element_by_accessibility.", <<>>), <<>>)
     ELSE IF text_to_type = None
     THEN Fail(ErrD("Could not resolve text template.", <<text_template>>), <<>>)
     ELSE IF ~env.win_found
     THEN Fail(ErrD("Window not found for accessibility typing.", <<target_win_title>>), c_win)
     ELSE IF ~env.elem_found
     THEN Fail(ErrD("Element not found for typing in window.",
                    <<element_name, automation_id, class_name_re, target_win_title>>), c_find)
     ELSE IF LoggableText(text_template, text_to_type, ctx).raised THEN Raised(c_clk0)
     ELSE IF env.set_text_ok
     THEN Ok(D1("info", M("Typed into element via accessibility.", <<elem_id>>)), c_set)
     ELSE IF ~env.has_perception
     THEN Fail(AppendError(warn, "PerceptionAgent unavailable for fallback.", <<>>), c_set)
     ELSE IF Truthy(eff) /\ ~env.activate_ok
     THEN Fail(AppendError(warn, "Could not activate window for vision fallback.", <<eff>>), c_act)
     ELSE IF ~VisionUsable(env.vision)
     THEN Fail(AppendError(warn, "Vision fallback: Element not found.", <<desc, VisionReason(env.vision)>>), c_vis)
     ELSE IF VisionCoordsRaise(env.vision, env.ss_bounds) THEN Raised(c_vis)
     ELSE IF ~env.click_at_ok
     THEN Fail(AppendError(warn, "Vision fallback click failed.", <<desc>>), c_clk)
     ELSE IF env.type_ok
     THEN Ok(Put(warn, "info", M("Typed (fallback vision) into element.", <<desc>>)), c_typ)
     ELSE Fail(AppendError(warn, "Vision fallback type failed after click.", <<desc>>), c_typ)

\* get_element_text_by_accessibility
GetElementTextByAccessibility(p, ctx, env, eff) ==
  LET target_win_title == Or(Resolve(Get(p, "target_window_title"), ctx), eff)
      element_name == Resolve(Get(p, "element_name"), ctx)
      control_type == Get(p, "control_type")
      automation_id == Get(p, "automation_id")
      store_as == GetD(p, "store_result_as", S("last_element_text"))
      class_name_re == Get(p, "class_name_re")
      c_win == <<Call("_get_window", <<target_win_title>>)>>
      c_find == c_win \o <<Call("find_element", <<element_name, control_type, automation_id>>)>>
      c_prop == c_find \o <<Call("get_element_properties", <<>>)>>
      element_text == IF env.props.some /\ DOMAIN env.props.d # {}
                      THEN Get(env.props.d, "name") ELSE None
  IN IF ~Truthy(target_win_title)
        \/ ~(Truthy(element_name) \/ Truthy(automation_id) \/ Truthy(class_name_re))
     THEN Fail(ErrD("Missing parameters for get_element_text_by_accessibility.", <<>>), <<>>)
     ELSE IF ~env.win_found
     THEN Fail(ErrD("Window not found for getting element text.", <<target_win_title>>), c_win)
     ELSE IF ~env.elem_found
     THEN Fail(ErrD("Element not found for getting text.",
                    <<element_name, automation_id, class_name_re>>), c_find)
     ELSE IF element_text = None
     THEN Fail(ErrD("Could not retrieve text from element.", <<Or(element_name, automation_id)>>), c_prop)
     ELSE IF element_text.t # "str" THEN Raised(c_prop)
     ELSE Ok(D2(KeyOf(store_as), element_text,
                "info", M("Retrieved text from element.", <<element_text>>)), c_prop)

\* "error" in generated_text.lower()
ErrorWords == {"error", "Error", "ERROR"}
ContainsErrorWord(x) == \E i \in 1..Len(x.v) : x.v[i].k = "lit" /\ x.v[i].s \in ErrorWords

\* generate_text_content
GenerateTextContent(p, ctx, env) ==
  LET prompt_for_gen_template == Get(p, "prompt_for_generation")
      store_as == GetD(p, "store_result_as", S("generated_text_content"))
      resolved_prompt_for_gen == Resolve(prompt_for_gen_template, ctx)
      c_gen == <<Call("generate_text_response", <<resolved_prompt_for_gen>>)>>
      generated_text == env.gen_text
  IN IF ~Truthy(resolved_prompt_for_gen)
     THEN Fail(ErrD("Missing 'prompt_for_generation' or failed to resolve.", <<>>), <<>>)
     ELSE IF ~env.has_gemini
     THEN Fail(ErrD("GeminiService unavailable for text generation.", <<>>), <<>>)
     ELSE IF resolved_prompt_for_gen.t # "str" THEN Raised(<<>>)
     ELSE IF ~Truthy(generated_text)
     THEN Fail(ErrD("Failed text gen.", <<generated_text>>), c_gen)
     ELSE IF generated_text.t # "str" THEN Raised(c_gen)
     ELSE IF ~ContainsErrorWord(generated_text)
     THEN Ok(D2(KeyOf(store_as), generated_text, "info", M("Text content generated.", <<>>)), c_gen)
     ELSE Fail(ErrD("Failed text gen.", <<generated_text>>), c_gen)

\* float(str): the number whose decimal form the string is, if there is one.
MaxNum == 3
Numbers == (0 - MaxNum)..MaxNum
IsNumeric(x) == x.t = "str" /\ Len(x.v) = 1 /\ x.v[1].k = "lit"
                /\ \E n \in Numbers : ToString(n) = x.v[1].s
FloatOf(x) == CHOOSE n \in Numbers : ToString(n) = x.v[1].s

\* Faulty variant: a negative duration is slept as it is.
WaitNoClamp(p, ctx, env) ==
  LET duration_param == GetD(p, "duration_seconds", Num(1))
      is_template == duration_param.t = "str" /\ HasRef(duration_param.v)
      resolved_var_str == IF is_template THEN Resolve(duration_param, ctx) ELSE PyStr(duration_param)
      as_text == IF is_template THEN resolved_var_str ELSE duration_param
      Sleep(n) == <<Call("sleep", <<n>>)>>
  IN IF duration_param.t \in {"num", "bool"}
     THEN OkNone(Sleep(IF duration_param.t = "bool" THEN (IF duration_param.v THEN 1 ELSE 0)
                       ELSE duration_param.v))
     ELSE IF duration_param.t = "str"
     THEN IF IsNumeric(as_text) THEN OkNone(Sleep(FloatOf(as_text)))
          ELSE Fail(ErrD("Invalid value for wait.", <<resolved_var_str>>), <<>>)
     ELSE Fail(ErrD("Invalid type for wait.", <<duration_param>>), <<>>)

\* wait
Wait(p, ctx, env) ==
  LET duration_param == GetD(p, "duration_seconds", Num(1))
      is_template == duration_param.t = "str" /\ HasRef(duration_param.v)
      resolved_var_str == IF is_template THEN Resolve(duration_param, ctx) ELSE PyStr(duration_param)
      as_text == IF is_template THEN resolved_var_str ELSE duration_param
      Sleep(n) == <<Call("sleep", <<IF n < 0 THEN 0 ELSE n>>)>>
  IN IF duration_param.t \in {"num", "bool"}
     THEN OkNone(Sleep(IF duration_param.t = "bool" THEN (IF duration_param.v THEN 1 ELSE 0)
                       ELSE duration_param.v))
     ELSE IF duration_param.t = "str"
     THEN IF IsNumeric(as_text) THEN OkNone(Sleep(FloatOf(as_text)))
          ELSE Fail(ErrD("Invalid value for wait.", <<resolved_var_str>>), <<>>)
     ELSE Fail(ErrD("Invalid type for wait.", <<duration_param>>), <<>>)

\* ActionAgent._ensure_creds_ready_for_action
EnsureCredsReady(env) ==
  IF ~env.has_credman \/ ~env.has_callback THEN [ready |-> FALSE, calls |-> <<>>]
  ELSE IF ~env.store_initialized
  THEN LET c_p == <<Call("is_initialized", <<>>), Call("get_master_password_input_for_action", <<Bool(TRUE)>>)>>
       IN IF ~Truthy(env.master_pwd) THEN [ready |-> FALSE, calls |-> c_p]
          ELSE [ready |-> env.setup_ok,
                calls |-> c_p \o <<Call("setup_master_password", <<env.master_pwd>>)>>]
  ELSE IF ~env.store_unlocked
  THEN LET c_p == <<Call("is_initialized", <<>>), Call("get_master_password_input_for_action", <<Bool(FALSE)>>)>>
       IN IF ~Truthy(env.master_pwd) THEN [ready |-> FALSE, calls |-> c_p]
          ELSE [ready |-> env.unlock_ok,
                calls |-> c_p \o <<Call("unlock_store", <<env.master_pwd>>)>>]
  ELSE [ready |-> TRUE, calls |-> <<Call("is_initialized", <<>>)>>]

\* What CredentialManager.get_credential returns: None or a stored entry.
NoCreds == [some |-> FALSE, username |-> None, password |-> None]
Creds(u, pw) == [some |-> TRUE, username |-> u, password |-> pw]
\* Faulty variant: the store answers a read without looking at is_unlocked.
GetCredentialUnchecked(env) == env.creds

\* CredentialManager.get_credential as the handler meets it: env.creds is what
\* the store holds for the service, env.lock_race says that another path called
\* lock_store after the readiness check.
GetCredential(env) == IF env.lock_race THEN NoCreds ELSE env.creds
\* CredentialManager.add_or_update_credential
AddOrUpdateCredential(env) == ~env.lock_race /\ env.save_ok

\* Faulty variant: the credentials are looked up whether or not the store is ready.
GetCredentialsForServiceUngated(p, ctx, env) ==
  LET service_name == Get(p, "service_name")
      ens == EnsureCredsReady(env)
      c_get == ens.calls \o <<Call("get_credential", <<service_name>>)>>
  IN IF ~env.has_credman THEN Fail(ErrD("CredMan missing.", <<>>), <<>>)
     ELSE IF ~env.has_callback THEN Fail(ErrD("Orch CB missing.", <<>>), <<>>)
     ELSE IF ~Truthy(service_name) THEN Fail(ErrD("Missing 'service_name'.", <<>>), <<>>)
     ELSE IF service_name.t # "str" THEN Raised(c_get)
     ELSE IF GetCredential(env).some
     THEN Ok(D3(KeyCat(service_name, "_username"), GetCredential(env).username,
                KeyCat(service_name, "_password"), GetCredential(env).password,
                "info", M("Creds retrieved.", <<service_name>>)), c_get)
     ELSE Fail(ErrD("Cred store not ready.", <<service_name>>), ens.calls)

\* get_credentials_for_service
GetCredentialsForService(p, ctx, env) ==
  LET service_name == Get(p, "service_name")
      ens == EnsureCredsReady(env)
      c_get == ens.calls \o <<Call("get_credential", <<service_name>>)>>
      c_inp == c_get \o <<Call("get_service_credential_input_for_action",
                               <<service_name, GetD(p, "username_hint", EmptyStr)>>)>>
      ui == env.user_input
      c_save == c_inp \o <<Call("add_or_update_credential", <<ui.s, ui.u, ui.p>>)>>
      got == D3(KeyCat(ui.s, "_username"), ui.u, KeyCat(ui.s, "_password"), ui.p,
                "info", M("Creds obtained.", <<ui.s>>))
  IN IF ~env.has_credman THEN Fail(ErrD("CredMan missing.", <<>>), <<>>)
     ELSE IF ~env.has_callback THEN Fail(ErrD("Orch CB missing.", <<>>), <<>>)
     ELSE IF ~Truthy(service_name) THEN Fail(ErrD("Missing 'service_name'.", <<>>), <<>>)
     ELSE IF ~ens.ready
     THEN Fail(ErrD("Cred store not ready.", <<service_name>>), ens.calls)
     ELSE IF service_name.t # "str" THEN Raised(c_get)
     ELSE IF GetCredential(env).some
     THEN Ok(D3(KeyCat(service_name, "_username"), GetCredential(env).username,
                KeyCat(service_name, "_password"), GetCredential(env).password,
                "info", M("Creds retrieved.", <<service_name>>)), c_get)
     ELSE IF ~(ui.some /\ Truthy(ui.s))
     THEN Fail(ErrD("Credential input cancelled/failed.", <<service_name>>), c_inp)
     ELSE IF ~ui.save THEN Ok(got, c_inp)
     ELSE IF AddOrUpdateCredential(env) THEN Ok(got, c_save)
     ELSE Ok(Put(got, "warning", M("Failed to save.", <<>>)), c_save)

\* Faulty variant: a failed activation does not stop the vision attempt.
ClickByDescriptionIgnoresActivation(p, ctx, env, eff) ==
  LET element_desc == Get(p, "element_description")
      c_act == IF Truthy(eff) THEN <<Call("activate_window", <<eff>>)>> ELSE <<>>
      c_vis == c_act \o <<Call("get_element_coordinates_via_vision", <<element_desc, eff>>)>>
      abs == VisionAbs(env.vision, env.ss_bounds)
      c_clk == c_vis \o <<Call("click_at", <<abs[1], abs[2]>>)>>
  IN IF ~Truthy(element_desc) THEN Fail(ErrD("Missing 'element_description'.", <<>>), <<>>)
     ELSE IF ~env.has_perception THEN Fail(ErrD("PerceptionAgent unavailable.", <<>>), <<>>)
     ELSE IF ~VisionUsable(env.vision)
     THEN Fail(ErrD("Element (vision) not found.", <<element_desc, VisionReason(env.vision)>>), c_vis)
     ELSE IF VisionCoordsRaise(env.vision, env.ss_bounds) THEN Raised(c_vis)
     ELSE IF env.click_at_ok
     THEN Ok(D1("info", M("Clicked (vision) at coordinates.", <<element_desc, Num(abs[1]), Num(abs[2])>>)), c_clk)
     ELSE Fail(ErrD("Failed vision click at coordinates.", <<Num(abs[1]), Num(abs[2]), element_desc>>), c_clk)

\* click_element_by_description (vision only)
ClickByDescription(p, ctx, env, eff) ==
  LET element_desc == Get(p, "element_description")
      context_instr == GetD(p, "context_instructions_for_vision", EmptyStr)
      c_act == IF Truthy(eff) THEN <<Call("activate_window", <<eff>>)>> ELSE <<>>
      c_vis == c_act \o <<Call("get_element_coordinates_via_vision", <<element_desc, eff>>)>>
      abs == VisionAbs(env.vision, env.ss_bounds)
      c_clk == c_vis \o <<Call("click_at", <<abs[1], abs[2]>>)>>
  IN IF ~Truthy(element_desc) THEN Fail(ErrD("Missing 'element_description'.", <<>>), <<>>)
     ELSE IF ~env.has_perception THEN Fail(ErrD("PerceptionAgent unavailable.", <<>>), <<>>)
     ELSE IF Truthy(eff) /\ ~env.activate_ok
     THEN Fail(ErrD("Could not activate window.", <<eff>>), c_act)
     ELSE IF ~VisionUsable(env.vision)
     THEN Fail(ErrD("Element (vision) not found.", <<element_desc, VisionReason(env.vision)>>), c_vis)
     ELSE IF VisionCoordsRaise(env.vision, env.ss_bounds) THEN Raised(c_vis)
     ELSE IF env.click_at_ok
     THEN Ok(D1("info", M("Clicked (vision) at coordinates.", <<element_desc, Num(abs[1]), Num(abs[2])>>)), c_clk)
     ELSE Fail(ErrD("Failed vision click at coordinates.", <<Num(abs[1]), Num(abs[2]), element_desc>>), c_clk)

\* type_text_into_element_by_description (vision only)
TypeByDescription(p, ctx, env, eff) ==
  LET txt_tmpl == Get(p, "text_to_type")
      element_desc == Get(p, "element_description")
      txt_type == Resolve(txt_tmpl, ctx)
      c_act == IF Truthy(eff) THEN <<Call("activate_window", <<eff>>)>> ELSE <<>>
      c_vis == c_act \o <<Call("get_element_coordinates_via_vision", <<element_desc, eff>>)>>
      abs == VisionAbs(env.vision, env.ss_bounds)
      c_clk == c_vis \o <<Call("click_at", <<abs[1], abs[2]>>)>>
      c_typ == c_clk \o <<Call("type_text", <<txt_type, None>>)>>
  IN IF ~Truthy(txt_tmpl) \/ ~Truthy(element_desc)
     THEN Fail(ErrD("Missing text or element_desc.", <<>>), <<>>)
     ELSE IF ~env.has_perception THEN Fail(ErrD("PerceptionAgent unavailable.", <<>>), <<>>)
     ELSE IF txt_type = None THEN Fail(ErrD("Could not resolve.", <<txt_tmpl>>), <<>>)
     ELSE IF Truthy(eff) /\ ~env.activate_ok
     THEN Fail(ErrD("Could not activate.", <<eff>>), c_act)
     ELSE IF ~VisionUsable(env.vision)
     THEN Fail(ErrD("Element (vision) for typing not found.", <<element_desc, VisionReason(env.vision)>>), c_vis)
     ELSE IF VisionCoordsRaise(env.vision, env.ss_bounds) THEN Raised(c_vis)
     ELSE IF ~env.click_at_ok
     THEN Fail(ErrD("Failed vision click before typing.", <<element_desc>>), c_clk)
     ELSE IF LoggableText(txt_tmpl, txt_type, ctx).raised THEN Raised(c_clk)
     ELSE IF env.type_ok THEN Ok(D1("info", M("Typed (vision) into element.", <<element_desc>>)), c_typ)
     ELSE Fail(ErrD("Failed type after vision click.", <<element_desc>>), c_typ)

\* type_text
TypeText(p, ctx, env, eff) ==
  LET txt_tmpl == Get(p, "text")
      txt_type == Resolve(txt_tmpl, ctx)
      c_typ == <<Call("type_text", <<txt_type, eff>>)>>
  IN IF txt_type = None THEN Fail(ErrD("Missing text/var for general type_text", <<>>), <<>>)
     ELSE IF LoggableText(txt_tmpl, txt_type, ctx).raised THEN Raised(<<>>)
     ELSE IF env.type_ok THEN OkNone(c_typ)
     ELSE Fail(ErrD("Failed general type in window.", <<Or(eff, S("active"))>>), c_typ)

\* open_application
OpenApplication(p, ctx, env) ==
  LET app_name == Get(p, "application_name")
      act_if_run == GetD(p, "activate_if_running", Bool(TRUE))
      c_open == <<Call("open_application", <<app_name, act_if_run>>)>>
  IN IF ~Truthy(app_name) THEN Fail(ErrD("Missing application_name", <<>>), <<>>)
     ELSE IF env.win_obj.some /\ Truthy(env.win_obj.title)
     THEN H(env.open_ok, FALSE,
            D2("last_opened_window_title", env.win_obj.title, "last_opened_app_name", app_name), c_open)
     ELSE IF ~env.open_ok THEN Fail(ErrD("Failed to open/manage application.", <<app_name>>), c_open)
     ELSE OkNone(c_open)

\* activate_window
ActivateWindow(p, ctx, env, eff) ==
  LET title_h_p == Get(p, "window_title_hint")
      title_act == IF Truthy(title_h_p) THEN Resolve(title_h_p, ctx) ELSE eff
      c_act == <<Call("activate_window", <<title_act>>)>>
  IN IF ~Truthy(title_act) THEN Fail(ErrD("Missing window_title_hint", <<>>), <<>>)
     ELSE IF env.activate_ok THEN OkNone(c_act)
     ELSE Fail(ErrD("Failed activate.", <<title_act>>), c_act)

\* close_application
CloseApplication(p, ctx, env, eff) ==
  LET param_t == Or(Get(p, "application_name"), Get(p, "window_title_hint"))
      title_c == IF Truthy(param_t) THEN Resolve(param_t, ctx) ELSE eff
      c_close == <<Call("close_application_window", <<title_c>>)>>
  IN IF ~Truthy(title_c) THEN Fail(ErrD("No target for close_application", <<>>), <<>>)
     ELSE IF env.close_ok
     THEN Ok(D2("last_opened_window_title", None, "last_opened_app_name", None), c_close)
     ELSE Fail(ErrD("Failed close.", <<title_c>>), c_close)

\* search_web
SearchWeb(p, ctx, env) ==
  LET q == Get(p, "search_query")
      c_s == <<Call("search_web", <<q>>)>>
  IN IF ~Truthy(q) THEN Fail(ErrD("Missing search_query", <<>>), <<>>)
     ELSE IF env.search_ok THEN OkNone(c_s)
     ELSE Fail(ErrD("Failed web search", <<>>), c_s)

\* press_key
PressKey(p, ctx, env, eff) ==
  LET k_param == Get(p, "key_name")
      key_to_press == IF k_param.t = "str" /\ HasRef(k_param.v) THEN Resolve(k_param, ctx) ELSE k_param
      c_k == <<Call("press_key", <<key_to_press, eff>>)>>
  IN IF ~Truthy(key_to_press)
     THEN Fail(ErrD("Missing key_name or failed to resolve for press_key", <<>>), <<>>)
     ELSE IF env.key_ok THEN OkNone(c_k)
     ELSE Fail(ErrD("Failed press key in window.", <<Or(eff, S("active"))>>), c_k)

\* clear_text_in_window
ClearTextInWindow(p, ctx, env, eff) ==
  LET c_act == <<Call("activate_window", <<eff>>)>>
      c_a == c_act \o <<Call("press_key", <<S("ctrl+a"), None>>)>>
      c_d == c_a \o <<Call("press_key", <<S("delete"), None>>)>>
  IN IF ~Truthy(eff) THEN Fail(ErrD("No target window specified for clear_text", <<>>), <<>>)
     ELSE IF ~env.activate_ok THEN Fail(ErrD("Failed activate window for clearing.", <<eff>>), c_act)
     ELSE IF ~env.key_ok THEN Fail(ErrD("Failed select all (Ctrl+A)", <<>>), c_a)
     ELSE IF env.key2_ok THEN OkNone(c_d)
     ELSE Fail(ErrD("Failed delete after select all", <<>>), c_d)

\* get_info_from_screen
GetInfoFromScreen(p, ctx, env, eff) ==
  LET q_details == Get(p, "query_details")
      store_as_key == Get(p, "store_result_as")
      target_win_for_ss == Get(p, "target_window_title")
      final_target_win_title == IF Truthy(target_win_for_ss) THEN Resolve(target_win_for_ss, ctx) ELSE eff
      key == IF Truthy(store_as_key) THEN KeyOf(store_as_key) ELSE "last_perception_data"
      c_an == <<Call("analyze_screen_for_info", <<q_details, final_target_win_title>>)>>
      p_result == env.p_result
  IN IF ~env.has_perception THEN Fail(ErrD("PerceptionAgent unavailable", <<>>), <<>>)
     ELSE IF ~Truthy(q_details) THEN Fail(ErrD("Missing query_details for get_info_from_screen", <<>>), <<>>)
     ELSE IF Truthy(Get(p_result, "found")) THEN Ok(D1(key, Get(p_result, "data")), c_an)
     ELSE Fail(Put(D1(key, None), "error", GetD(p_result, "reason", S("Info not found"))), c_an)

\* log_message: parameters.get("level", "info").lower() raises on a non-string;
\* the resolved message is written to the log as f"PLAN_LOG: {msg_l}".
LogMessage(p, ctx, env) ==
  LET msg_t == GetD(p, "message", S("No msg"))
      msg_l == Resolve(msg_t, ctx)
      lvl == GetD(p, "level", S("info"))
  IN IF lvl.t # "str" THEN Raised(<<>>)
     ELSE OkNone(<<Call("log", <<M("PLAN_LOG: ", <<msg_l>>)>>)>>)

\* navigate_url
NavigateUrl(p, ctx, env) == Fail(D1("info", M("Web nav not implemented.", <<>>)), <<>>)

\* send_message_whatsapp: msg[:20] raises on a value that cannot be sliced.
SendMessageWhatsapp(p, ctx, env) ==
  LET msg == GetD(p, "message_content", EmptyStr)
  IN IF msg.t # "str" THEN Raised(<<>>)
     ELSE Fail(D1("info", M("High-level WhatsApp send; use 'find_contact_and_send_message' intent for detailed planning.", <<>>)), <<>>)

\* Faulty variant: an unknown action type is silently ignored.
UnknownActionIgnored(action_type) == OkNone(<<>>)

\* the final else branch
UnknownAction(action_type) ==
  Fail(ErrD("Unknown or unimplemented action type", <<action_type>>), <<>>)

\* The closed set of action types execute_action has a branch for.
NoOsNeeded == {"log_message", "get_info_from_screen", "get_credentials_for_service", "wait",
               "generate_text_content"}
VisionOnlyTypes == {"click_element_by_description", "type_text_into_element_by_description"}
AccessibilityTypes == {"click_element_by_accessibility", "type_text_into_element_by_accessibility",
                       "get_element_text_by_accessibility"}
HandledTypes == AccessibilityTypes \cup VisionOnlyTypes \cup
  {"generate_text_content", "wait", "get_credentials_for_service", "type_text", "open_application",
   "activate_window", "close_application", "search_web", "press_key", "clear_text_in_window",
   "get_info_from_screen", "log_message", "navigate_url", "send_message_whatsapp"}

\* The name of the action type when it is a plain string, "" otherwise.
TypeName(action_type) ==
  IF action_type.t = "str" /\ Len(action_type.v) = 1 THEN action_type.v[1].s ELSE ""

\* The handler chain (the if/elif over action_type).
Handle(action_type, p, ctx, env, eff) ==
  LET at == TypeName(action_type)
  IN CASE at = "click_element_by_accessibility" -> ClickByAccessibility(p, ctx, env, eff)
       [] at = "type_text_into_element_by_accessibility" -> TypeByAccessibility(p, ctx, env, eff)
       [] at = "get_element_text_by_accessibility" -> GetElementTextByAccessibility(p, ctx, env, eff)
       [] at = "generate_text_content" -> GenerateTextContent(p, ctx, env)
       [] at = "wait" -> Wait(p, ctx, env)
       [] at = "get_credentials_for_service" -> GetCredentialsForService(p, ctx, env)
       [] at = "click_element_by_description" -> ClickByDescription(p, ctx, env, eff)
       [] at = "type_text_into_element_by_description" -> TypeByDescription(p, ctx, env, eff)
       [] at = "type_text" -> TypeText(p, ctx, env, eff)
       [] at = "open_application" -> OpenApplication(p, ctx, env)
       [] at = "activate_window" -> ActivateWindow(p, ctx, env, eff)
       [] at = "close_application" -> CloseApplication(p, ctx, env, eff)
       [] at = "search_web" -> SearchWeb(p, ctx, env)
       [] at = "press_key" -> PressKey(p, ctx, env, eff)
       [] at = "clear_text_in_window" -> ClearTextInWindow(p, ctx, env, eff)
       [] at = "get_info_from_screen" -> GetInfoFromScreen(p, ctx, env, eff)
       [] at = "log_message" -> LogMessage(p, ctx, env)
       [] at = "navigate_url" -> NavigateUrl(p, ctx, env)
       [] at = "send_message_whatsapp" -> SendMessageWhatsapp(p, ctx, env)
       [] OTHER -> UnknownAction(action_type)

\* Faulty variant: no default error is synthesized.
PostProcessNoDefault(action_type, h) ==
  IF h.raised \/ h.success THEN h
  ELSE [h EXCEPT !.is_none = FALSE, !.data = IF h.is_none THEN EmptyDict ELSE h.data]

\* The post-processing before return: a failed step always carries an "error".
PostProcess(action_type, h) ==
  IF h.raised \/ h.success THEN h
  ELSE LET d == IF h.is_none THEN EmptyDict ELSE h.data
       IN [h EXCEPT !.is_none = FALSE,
                    !.data = IF "error" \in DOMAIN d THEN d
                             ELSE Put(d, "error", M("Action failed.", <<action_type>>))]

\* Faulty variant: the accessibility backend is not checked before the handler runs.
ExecuteActionNoAccessibilityCheck(action_details, ctx, env) ==
  LET action_type == Get(action_details, "action_type")
      parameters == GetD(action_details, "parameters", EmptyDict)
      at == TypeName(action_type)
      effective_target_title == EffectiveTargetTitle(parameters, ctx)
  IN IF ~env.has_os /\ at \notin NoOsNeeded
     THEN Fail(ErrD("OSInteractionService unavailable", <<>>), <<>>)
     ELSE IF ~env.has_perception /\ at \in VisionOnlyTypes
     THEN Fail(ErrD("PerceptionAgent (for vision) required.", <<action_type>>), <<>>)
     ELSE IF ~env.has_gemini /\ at = "generate_text_content"
     THEN Fail(ErrD("GeminiService required for generate_text_content", <<>>), <<>>)
     ELSE PostProcess(action_type, Handle(action_type, parameters, ctx, env, effective_target_title))

\* ActionAgent.execute_action
ExecuteAction(action_details, ctx, env) ==
  LET action_type == Get(action_details, "action_type")
      parameters == GetD(action_details, "parameters", EmptyDict)
      at == TypeName(action_type)
      effective_target_title == EffectiveTargetTitle(parameters, ctx)
  IN IF ~env.has_os /\ at \notin NoOsNeeded
     THEN Fail(ErrD("OSInteractionService unavailable", <<>>), <<>>)
     ELSE IF ~env.has_perception /\ at \in VisionOnlyTypes
     THEN Fail(ErrD("PerceptionAgent (for vision) required.", <<action_type>>), <<>>)
     ELSE IF ~env.has_accessibility /\ at \in AccessibilityTypes
     THEN Fail(ErrD("AccessibilityService required.", <<action_type>>), <<>>)
     ELSE IF ~env.has_gemini /\ at = "generate_text_content"
     THEN Fail(ErrD("GeminiService required for generate_text_content", <<>>), <<>>)
     ELSE PostProcess(action_type, Handle(action_type, parameters, ctx, env, effective_target_title))

(***************************************************************************)
(* Collaborator answers and step inputs the model explores.                *)
(***************************************************************************)
NoBounds == [some |-> FALSE, l |-> 0, t |-> 0, w |-> 0, h |-> 0]
\* PerceptionAgent: (0, 0, -1, -1) signals a full-screen screenshot.
FullScreen == [some |-> TRUE, l |-> 0, t |-> 0, w |-> -1, h |-> -1]
WindowBounds == [some |-> TRUE, l |-> 10, t |-> 20, w |-> 100, h |-> 50]
\* What PerceptionAgent.get_element_coordinates_via_vision returns as coords_info.
VisionNone == [some |-> FALSE, d |-> EmptyDict]
VisionNotFound == [some |-> TRUE, d |-> D2("found", Bool(FALSE), "reasoning", S("not visible"))]
VisionNoResponse == [some |-> TRUE, d |-> D2("found", Bool(FALSE), "reasoning", S("Vision service no response."))]
VisionFound(x, y) ==
  [some |-> TRUE,
   d |-> [k \in {"found", "x_center", "y_center", "x_top_left", "y_top_left", "width", "height", "reasoning"} |->
            CASE k = "found" -> Bool(TRUE)
              [] k = "x_center" -> Num(x)
              [] k = "y_center" -> Num(y)
              [] k = "reasoning" -> S("seen")
              [] OTHER -> Num(1)]]

\* The vision backend's text response: nothing, text that is not JSON, JSON
\* that is not an object, or a JSON object.
RawNone == [k |-> "none", d |-> EmptyDict, v |-> None]
RawText == [k |-> "text", d |-> EmptyDict, v |-> None]
RawValue(x) == [k |-> "value", d |-> EmptyDict, v |-> x]
RawObject(d) == [k |-> "object", d |-> d, v |-> None]
\* keys = ["x_center", "y_center", "x_top_left", "y_top_left", "width", "height"]
CoordKeys == <<"x_center", "y_center", "x_top_left", "y_top_left", "width", "height">>
\* isinstance(x, (int, float)); a bool is an int.
IsIntOrFloat(x) == x.t \in {"num", "bool"}
InvalidCoord(d, k) == Get(d, k) = None \/ ~IsIntOrFloat(Get(d, k))
ParseError(e) ==
  D3("found", Bool(FALSE), "reasoning", Str(<<Lit("JSON parse error: "), Lit(e)>>), "raw", S("raw"))
Malformed ==
  D3("found", Bool(FALSE), "reasoning", S("Malformed JSON from vision."), "raw", S("raw"))
\* get_element_coordinates_via_vision from the backend's response on.
ParseCoords(raw) ==
  IF raw.k = "none"
  THEN D2("found", Bool(FALSE), "reasoning", S("Vision service no response."))
  ELSE IF raw.k = "text" THEN ParseError("Expecting value")
  ELSE IF raw.k = "value" \/ "found" \notin DOMAIN raw.d THEN Malformed
  ELSE IF ~Truthy(raw.d["found"]) \/ \A i \in 1..Len(CoordKeys) : ~InvalidCoord(raw.d, CoordKeys[i])
  THEN Put(raw.d, "raw_output", S("raw"))
  ELSE LET i == CHOOSE j \in 1..Len(CoordKeys) :
                  /\ InvalidCoord(raw.d, CoordKeys[j])
                  /\ \A h \in 1..(j - 1) : ~InvalidCoord(raw.d, CoordKeys[h])
           reasoning == GetD(raw.d, "reasoning", EmptyStr)
       IN IF reasoning.t # "str" THEN ParseError("unsupported operand type(s) for +")
          ELSE Put(Put(Put(raw.d, "found", Bool(FALSE)),
                       "reasoning",
                       Str(reasoning.v \o <<Lit(" Invalid coord: "), Lit(CoordKeys[i]), Lit(".")>>)),
                   "raw_output", S("raw"))
\* PerceptionAgent.get_element_coordinates_via_vision: pa holds whether the
\* agent has a generation backend, the screenshot's bounds (none when the
\* capture failed) and the backend's response.
GetElementCoordinatesViaVision(pa) ==
  IF ~pa.has_gemini \/ ~pa.screenshot.some THEN <<VisionNone, NoBounds>>
  ELSE <<[some |-> TRUE, d |-> ParseCoords(pa.raw)], pa.screenshot>>

Perception(has_gemini, screenshot, raw) ==
  [has_gemini |-> has_gemini, screenshot |-> screenshot, raw |-> raw]
\* A complete locate result as the prompt asks for it.
LocateObject(x, y) == Put(VisionFound(x, y).d, "confidence", Num(1))
Without(d, k) == [j \in (DOMAIN d) \ {k} |-> d[j]]
\* What the PerceptionAgent meets when asked to locate an element.
PerceptionInputs ==
  {Perception(FALSE, FullScreen, RawObject(LocateObject(3, 4))),
   Perception(TRUE, NoBounds, RawObject(LocateObject(3, 4))),
   Perception(TRUE, FullScreen, RawObject(VisionNotFound.d)),
   Perception(TRUE, WindowBounds, RawNone),
   Perception(TRUE, WindowBounds, RawText),
   Perception(TRUE, FullScreen, RawValue(Num(1))),
   Perception(TRUE, FullScreen, RawObject(D1("reasoning", S("seen")))),
   Perception(TRUE, FullScreen, RawObject(LocateObject(3, 4))),
   Perception(TRUE, WindowBounds, RawObject(LocateObject(3, 4))),
   Perception(TRUE, WindowBounds, RawObject(Without(LocateObject(3, 4), "x_center"))),
   Perception(TRUE, FullScreen, RawObject(Put(LocateObject(3, 4), "y_center", S("4")))),
   Perception(TRUE, WindowBounds, RawObject(Put(Put(LocateObject(3, 4), "width", None), "reasoning", None))),
   Perception(TRUE, WindowBounds, RawObject(Without(LocateObject(3, 4), "confidence"))),
   Perception(TRUE, FullScreen, RawObject(Put(LocateObject(3, 4), "confidence", S("high"))))}
\* (coords_info, ss_bounds) pairs the PerceptionAgent can return.
VisionAnswers == {GetElementCoordinatesViaVision(pa) : pa \in PerceptionInputs}

NoProps == [some |-> FALSE, d |-> EmptyDict]
Props(name) == [some |-> TRUE, d |-> D1("name", name)]
NoWindow == [some |-> FALSE, title |-> None]
Window(title) == [some |-> TRUE, title |-> title]
NoInput == [some |-> FALSE, s |-> EmptyStr, u |-> EmptyStr, p |-> EmptyStr, save |-> FALSE]
Input(sv, u, pw, save) == [some |-> TRUE, s |-> sv, u |-> u, p |-> pw, save |-> save]

\* Every collaborator present and every call answering with success.
BaseEnv ==
  [has_os |-> TRUE, has_perception |-> TRUE, has_accessibility |-> TRUE, has_gemini |-> TRUE,
   has_credman |-> TRUE, has_callback |-> TRUE,
   win_found |-> TRUE, elem_found |-> TRUE, acc_click_ok |-> TRUE, set_text_ok |-> TRUE,
   activate_ok |-> TRUE, click_at_ok |-> TRUE, type_ok |-> TRUE, key_ok |-> TRUE, key2_ok |-> TRUE,
   open_ok |-> TRUE, close_ok |-> TRUE, search_ok |-> TRUE,
   vision_in |-> Perception(TRUE, FullScreen, RawObject(LocateObject(3, 4))),
   vision |-> VisionFound(3, 4), ss_bounds |-> FullScreen,
   props |-> Props(S("7")), gen_text |-> S("generated"),
   p_result |-> D2("found", Bool(TRUE), "data", S("seen text")),
   win_obj |-> Window(S("Calculator")),
   store_initialized |-> TRUE, store_unlocked |-> TRUE, master_pwd |-> None,
   setup_ok |-> TRUE, unlock_ok |-> TRUE, creds |-> Creds(S("alice"), S("hunter2")),
   lock_race |-> FALSE,
   user_input |-> NoInput, save_ok |-> TRUE]

\* The fallback tier's collaborator answers.
VisionEnvs(e) ==
  {[e EXCEPT !.has_perception = hp, !.activate_ok = a, !.vision_in = pa,
             !.vision = GetElementCoordinatesViaVision(pa)[1],
             !.ss_bounds = GetElementCoordinatesViaVision(pa)[2],
             !.click_at_ok = c, !.type_ok = ty] :
     hp \in BOOLEAN, a \in BOOLEAN, pa \in PerceptionInputs, c \in BOOLEAN, ty \in BOOLEAN}
AccessEnvs(e) ==
  {[e EXCEPT !.has_accessibility = ha, !.win_found = w, !.elem_found = el, !.acc_click_ok = ck,
             !.set_text_ok = st] :
     ha \in BOOLEAN, w \in BOOLEAN, el \in BOOLEAN, ck \in BOOLEAN, st \in BOOLEAN}
CredEnvs ==
  {[BaseEnv EXCEPT !.has_credman = hc, !.has_callback = hb, !.store_initialized = si,
                   !.store_unlocked = su, !.master_pwd = mp, !.setup_ok = ok, !.unlock_ok = ok,
                   !.creds = cr, !.user_input = ui, !.save_ok = sv, !.lock_race = lr] :
     lr \in BOOLEAN, hc \in BOOLEAN, hb \in BOOLEAN, si \in BOOLEAN, su \in BOOLEAN,
     mp \in {None, S("master")}, ok \in BOOLEAN,
     cr \in {NoCreds, Creds(S("alice"), S("hunter2"))},
     ui \in {NoInput, Input(S("svc"), S("bob"), S("pw2"), TRUE), Input(S("svc"), S("bob"), S("pw2"), FALSE)},
     sv \in BOOLEAN}

\* The collaborator answers explored for one action type.
EnvsFor(at) ==
  CASE at = "click_element_by_accessibility" ->
         {y \in UNION {VisionEnvs(e) : e \in {x \in AccessEnvs(BaseEnv) : x.set_text_ok}} : y.type_ok}
    [] at = "type_text_into_element_by_accessibility" ->
         UNION {VisionEnvs(e) : e \in {x \in AccessEnvs(BaseEnv) : x.acc_click_ok}}
    [] at = "get_element_text_by_accessibility" ->
         {[e EXCEPT !.props = pr] :
            e \in {x \in AccessEnvs(BaseEnv) : x.set_text_ok /\ x.acc_click_ok},
            pr \in {NoProps, Props(None), Props(S("7")), Props(Num(7))}}
    [] at \in VisionOnlyTypes -> VisionEnvs(BaseEnv)
    [] at = "generate_text_content" ->
         {[BaseEnv EXCEPT !.has_gemini = hg, !.gen_text = g] :
            hg \in BOOLEAN, g \in {None, EmptyStr, S("generated"), Str(<<Lit("Error"), Lit("quota")>>),
                  Str(<<Lit("a 404 "), Lit("error"), Lit(" means not found")>>)}}
    [] at = "get_credentials_for_service" -> CredEnvs
    [] at = "open_application" ->
         {[BaseEnv EXCEPT !.open_ok = o, !.win_obj = w] :
            o \in BOOLEAN, w \in {NoWindow, Window(EmptyStr), Window(S("Calculator"))}}
    [] at = "get_info_from_screen" ->
         {[BaseEnv EXCEPT !.has_perception = hp, !.p_result = r] :
            hp \in BOOLEAN,
            r \in {D2("found", Bool(TRUE), "data", S("seen text")),
                   D2("found", Bool(FALSE), "reason", S("Failed to capture screen."))}}
    [] OTHER ->
         {[BaseEnv EXCEPT !.activate_ok = a, !.type_ok = ty, !.key_ok = k1, !.key2_ok = k2,
                          !.close_ok = a, !.search_ok = a] :
            a \in BOOLEAN, ty \in BOOLEAN, k1 \in BOOLEAN, k2 \in BOOLEAN}

\* An action step as the planner emits it.
Step(at, params) == D2("action_type", S(at), "parameters", params)
P1(k1, v1) == D1(k1, v1)
P2(k1, v1, k2, v2) == D2(k1, v1, k2, v2)
P3(k1, v1, k2, v2, k3, v3) == D3(k1, v1, k2, v2, k3, v3)
T1(n) == Str(<<Ref(n)>>)

DispatchSteps ==
  { Step("click_element_by_accessibility",
         P3("target_window_title", S("Calculator"), "element_name", S("Seven"), "control_type", S("Button"))),
    Step("click_element_by_accessibility", P1("element_name", S("Seven"))),
    Step("click_element_by_accessibility",
         P2("target_window_title", T1("win"), "automation_id", S("num7Button"))),
    Step("click_element_by_accessibility", P1("target_window_title", S("Calculator"))),
    Step("type_text_into_element_by_accessibility",
         P3("text_to_type", S("hello"), "target_window_title", S("Calculator"), "element_name", S("Display"))),
    Step("type_text_into_element_by_accessibility",
         P2("text_to_type", T1("svc_password"), "element_name", S("Password"))),
    Step("type_text_into_element_by_accessibility",
         P3("text_to_type", Num(42), "target_window_title", S("Calculator"), "element_name", S("Display"))),
    Step("type_text_into_element_by_accessibility",
         P2("target_window_title", S("Calculator"), "element_name", S("Display"))),
    Step("get_element_text_by_accessibility",
         P3("target_window_title", S("Calculator"), "element_name", S("Display"), "store_result_as", S("shown"))),
    Step("get_element_text_by_accessibility", P1("automation_id", S("CalculatorResults"))),
    Step("generate_text_content", P2("prompt_for_generation", S("write"), "store_result_as", S("draft"))),
    Step("generate_text_content", P1("prompt_for_generation", Str(<<Lit("write"), Ref("topic")>>))),
    Step("generate_text_content", P1("prompt_for_generation", Num(5))),
    Step("generate_text_content", EmptyDict),
    Step("wait", P1("duration_seconds", Num(2))),
    Step("wait", P1("duration_seconds", Num(-1))),
    Step("wait", P1("duration_seconds", S("2"))),
    Step("wait", P1("duration_seconds", T1("delay"))),
    Step("wait", P1("duration_seconds", S("soon"))),
    Step("wait", P1("duration_seconds", None)),
    Step("wait", EmptyDict),
    Step("get_credentials_for_service", P1("service_name", S("svc"))),
    Step("get_credentials_for_service", P1("service_name", Num(5))),
    Step("get_credentials_for_service", EmptyDict),
    Step("click_element_by_description", P1("element_description", S("red button"))),
    Step("click_element_by_description",
         P2("element_description", S("red button"), "target_window_title", S("Calculator"))),
    Step("click_element_by_description", EmptyDict),
    Step("type_text_into_element_by_description",
         P2("text_to_type", S("hello"), "element_description", S("field"))),
    Step("type_text_into_element_by_description",
         P2("text_to_type", Num(42), "element_description", S("field"))),
    Step("type_text_into_element_by_description", P1("element_description", S("field"))),
    Step("type_text", P1("text", S("hello"))),
    Step("type_text", P1("text", T1("svc_password"))),
    Step("type_text", P1("text", Num(42))),
    Step("type_text", P1("text", EmptyStr)),
    Step("type_text", EmptyDict),
    Step("open_application", P1("application_name", S("Calculator"))),
    Step("open_application", EmptyDict),
    Step("activate_window", P1("window_title_hint", S("Calculator"))),
    Step("activate_window", EmptyDict),
    Step("close_application", P1("application_name", S("Calculator"))),
    Step("close_application", EmptyDict),
    Step("search_web", P1("search_query", S("weather"))),
    Step("search_web", EmptyDict),
    Step("press_key", P1("key_name", S("enter"))),
    Step("press_key", P1("key_name", T1("key"))),
    Step("press_key", EmptyDict),
    Step("clear_text_in_window", P1("target_window_title", S("Calculator"))),
    Step("clear_text_in_window", EmptyDict),
    Step("get_info_from_screen", P2("query_details", S("what"), "store_result_as", S("found_text"))),
    Step("get_info_from_screen", P1("query_details", S("what"))),
    Step("get_info_from_screen", EmptyDict),
    Step("log_message", P1("message", S("hi"))),
    Step("log_message", P2("message", T1("svc_password"), "level", S("debug"))),
    Step("log_message", P2("message", S("hi"), "level", Num(3))),
    Step("log_message", P2("message", S("hi"), "level", None)),
    Step("navigate_url", P1("url", S("example.org"))),
    Step("send_message_whatsapp", P2("recipient", S("bob"), "message_content", S("yo"))),
    Step("send_message_whatsapp", P1("message_content", Num(5))),
    Step("send_message_whatsapp", EmptyDict),
    Step("frobnicate", P1("target_window_title", S("Calculator"))),
    Step("error", P1("message", S("Planner no response."))),
    D1("parameters", P1("target_window_title", Num(7))),
    EmptyDict }

DispatchContexts ==
  { EmptyDict,
    D1("last_opened_window_title", S("Calculator")),
    [k \in {"last_opened_window_title", "win", "svc_password", "delay", "topic", "key"} |->
       CASE k = "last_opened_window_title" -> S("Notepad")
         [] k = "win" -> S("Calculator")
         [] k = "svc_password" -> S("hunter2")
         [] k = "delay" -> S("2")
         [] k = "topic" -> S("rain")
         [] OTHER -> S("enter")] }

(***************************************************************************)
(* State.                                                                  *)
(***************************************************************************)
\* Bounds of the Plan Runner model.
MaxPlanLen == 3
MaxPlans == 2

\* The steps the explored plans are made of.
SClose == Step("close_application", P1("application_name", S("Calculator")))
SInfo == Step("get_info_from_screen", P2("query_details", S("what"), "store_result_as", S("found_text")))
SCred == Step("get_credentials_for_service", P1("service_name", S("svc")))
RunnerSteps == {SInfo, SCred}
RECURSIVE SeqsUpTo(_, _)
SeqsUpTo(X, n) ==
  IF n = 0 THEN {<<>>}
  ELSE LET shorter == SeqsUpTo(X, n - 1)
       IN shorter \cup {Append(q, x) : q \in {y \in shorter : Len(y) = n - 1}, x \in X}
Plans == (SeqsUpTo(RunnerSteps, MaxPlanLen) \ {<<>>}) \cup {<<SClose>>, <<SClose, SInfo>>}

\* Entities the NLU collaborator returns with an achieve_goal intent.
EntitySets ==
  { D1("goal_description", S("do it")),
    D2("goal_description", S("do it"), "application_hint", S("Calculator")) }

\* What the user enters in a credential dialog ("" / empty tuple: cancelled).
MasterResponses == {EmptyStr, S("master"), S("wrong")}
RightMaster == S("master")
ServiceResponses ==
  {Input(EmptyStr, EmptyStr, EmptyStr, FALSE), Input(S("svc"), S("bob"), S("pw2"), TRUE),
   Input(S("svc"), S("bob"), S("pw2"), FALSE)}

VARIABLES
  d_pc, d_step, d_ctx, d_env, d_result,
  r_pc,                   \* _resolve_context_variable: "call", "loop" or "returned"
  r_template,             \* its argument text_template
  r_ctx,                  \* its argument context
  r_text,                 \* resolved_text, and the value returned
  r_passes,               \* the re.sub passes made in this call
  r_prev,                 \* the value an earlier call returned, when this call is applied to it
  is_busy,                \* MainOrchestrator.is_busy
  current_plan,           \* MainOrchestrator.current_plan
  current_step_index,     \* MainOrchestrator.current_step_index
  execution_context,      \* MainOrchestrator.execution_context
  timer_active,           \* step_execution_timer.isActive()
  dialog_loop,            \* _dialog_response_event_loop: 0 is None, else the stack depth of its owner
  dialog_data,            \* _dialog_response_data
  stack,                  \* execute_action calls blocked inside a prompt's nested event loop
  store,                  \* the credential store
  plan_no,                \* history: number of plans accepted so far
  dispatched,             \* history: the steps of the latest plan execute_action was called for
  returned_ok,            \* history: those of them that returned success
  failed,                 \* history: those of them that returned failure
  outcome,                \* history: the terminal reports made since the latest plan was accepted
  plan_ctx,               \* history: the context at plan start with the merges of the plan's own steps
  ev                      \* history: what the last handler did

resolver_vars == <<r_pc, r_template, r_ctx, r_text, r_passes, r_prev>>
dvars == <<d_pc, d_step, d_ctx, d_env, d_result, r_pc, r_template, r_ctx, r_text, r_passes, r_prev>>
rvars == <<is_busy, current_plan, current_step_index, execution_context, timer_active,
           dialog_loop, dialog_data, stack, store, plan_no, dispatched, returned_ok, failed,
           outcome, plan_ctx, ev>>
vars == <<d_pc, d_step, d_ctx, d_env, d_result, r_pc, r_template, r_ctx, r_text, r_passes, r_prev,
          is_busy, current_plan, current_step_index, execution_context, timer_active,
          dialog_loop, dialog_data, stack, store, plan_no, dispatched, returned_ok, failed,
           outcome, plan_ctx, ev>>

NoResult == Raised(<<>>)

\* What the last handler did: which slot ran, how it ended, and, when an
\* execute_action call returned in it, the call (plan number, index), its
\* result, the context it was merged into, the runner's cursor when it
\* returned, and the step number reported in "Error at step n".
Event(handler, kind, pno, idx, success, data, pre_ctx, cursor, err_step) ==
  [handler |-> handler, kind |-> kind, pno |-> pno, idx |-> idx, success |-> success,
   data |-> data, pre_ctx |-> pre_ctx, cursor |-> cursor, err_step |-> err_step]
PlainEvent(handler, kind) == Event(handler, kind, 0, 0, FALSE, EmptyDict, EmptyDict, 0, 0)
NoResponse == [kind |-> "none", m |-> None, s |-> NoInput]
MasterResponse(pw) == [kind |-> "master", m |-> pw, s |-> NoInput]
ServiceResponse(inp) == [kind |-> "service", m |-> None, s |-> inp]

\* MainOrchestrator.__init__ (the store starts locked; it may or may not have
\* been set up, and may hold credentials, in an earlier session).
RunnerInit ==
  /\ is_busy = FALSE
  /\ current_plan = <<>>
  /\ current_step_index = 0
  /\ execution_context = EmptyDict
  /\ timer_active = FALSE
  /\ dialog_loop = 0
  /\ dialog_data = NoResponse
  /\ stack = <<>>
  /\ store \in {[initialized |-> FALSE, unlocked |-> FALSE, creds |-> NoCreds],
                [initialized |-> TRUE, unlocked |-> FALSE, creds |-> NoCreds],
                [initialized |-> TRUE, unlocked |-> FALSE, creds |-> Creds(S("alice"), S("hunter2"))]}
  /\ plan_no = 0
  /\ dispatched = {}
  /\ returned_ok = {}
  /\ failed = {}
  /\ outcome = {}
  /\ plan_ctx = EmptyDict
  /\ ev = PlainEvent("init", "init")
RunnerIdle ==
  /\ is_busy = FALSE /\ current_plan = <<>> /\ current_step_index = 0
  /\ execution_context = EmptyDict /\ timer_active = FALSE /\ dialog_loop = 0
  /\ dialog_data = NoResponse /\ stack = <<>>
  /\ store = [initialized |-> FALSE, unlocked |-> FALSE, creds |-> NoCreds]
  /\ plan_no = 0 /\ dispatched = {} /\ returned_ok = {} /\ failed = {} /\ outcome = {}
  /\ plan_ctx = EmptyDict
  /\ ev = PlainEvent("init", "init")
NoOutput == [some |-> FALSE, v |-> None]
Output(x) == [some |-> TRUE, v |-> x]
ResolveIdle ==
  /\ r_pc = "idle" /\ r_template = None /\ r_ctx = EmptyDict /\ r_text = None
  /\ r_passes = 0 /\ r_prev = NoOutput
DispatchIdle ==
  /\ d_pc = "idle" /\ d_step = EmptyDict /\ d_ctx = EmptyDict /\ d_env = BaseEnv
  /\ d_result = NoResult
  /\ ResolveIdle

(***************************************************************************)
(* SpecDispatch: one call of execute_action on every explored input.       *)
(***************************************************************************)
DispatchInit ==
  /\ RunnerIdle
  /\ ResolveIdle
  /\ d_pc = "ready"
  /\ d_step \in DispatchSteps
  /\ d_ctx \in DispatchContexts
  /\ d_env = BaseEnv
  /\ d_result = NoResult

Dispatch ==
  /\ d_pc = "ready"
  /\ \E env \in EnvsFor(TypeName(Get(d_step, "action_type"))) :
       /\ d_env' = env
       /\ d_result' = ExecuteAction(d_step, d_ctx, env)
  /\ d_pc' = "returned"
  /\ UNCHANGED <<d_step, d_ctx>>
  /\ UNCHANGED resolver_vars
  /\ UNCHANGED rvars

DispatchNext == Dispatch
SpecDispatch == DispatchInit /\ [][DispatchNext]_vars

(***************************************************************************)
(* SpecResolve: _resolve_context_variable, one re.sub pass per step, on     *)
(* every explored template and context; the value returned is then given    *)
(* to a second call.                                                        *)
(***************************************************************************)
MaxTemplateLen == 2
TemplateTokens == {Lit("x"), Ref("a"), Ref("b"), Ref("name"), RefWs("a"), RefWs("name")}
Templates ==
  {Str(t) : t \in SeqsUpTo(TemplateTokens, MaxTemplateLen)} \cup {None, Num(5)}
ResolveContexts ==
  { EmptyDict,
    D1("a", S("1")),
    D1("a", Num(5)),
    D2("a", Str(<<Ref("b")>>), "b", S("v")),
    D2("a", Str(<<Ref("b")>>), "b", Str(<<Ref("a")>>)),
    D1("a", Str(<<Lit("x"), Ref("a")>>)),
    D1("a", Str(<<RefWs("c")>>)) }

ResolveInit ==
  /\ RunnerIdle
  /\ d_pc = "idle" /\ d_step = EmptyDict /\ d_ctx = EmptyDict /\ d_env = BaseEnv
  /\ d_result = NoResult
  /\ r_pc = "call"
  /\ r_template \in Templates
  /\ r_ctx \in ResolveContexts
  /\ r_text = None
  /\ r_passes = 0
  /\ r_prev = NoOutput

\* Faulty variant: None is resolved to the empty string.
ResolveCallNoneToEmpty ==
  /\ r_pc = "call"
  /\ IF r_template.t = "none" THEN r_pc' = "returned" /\ r_text' = EmptyStr /\ r_passes' = 0
     ELSE IF r_template.t # "str"
     THEN r_pc' = "returned" /\ r_text' = r_template /\ r_passes' = 1
     ELSE r_pc' = "loop" /\ r_text' = r_template /\ r_passes' = 0
  /\ UNCHANGED <<r_template, r_ctx, r_prev>>
  /\ UNCHANGED <<d_pc, d_step, d_ctx, d_env, d_result>>
  /\ UNCHANGED rvars

\* Entry: None is returned as it is; resolved_text = text_template.  On a
\* non-string the first re.sub raises, and the except clause returns the
\* template.
ResolveCall ==
  /\ r_pc = "call"
  /\ IF r_template.t = "none" THEN r_pc' = "returned" /\ r_text' = None /\ r_passes' = 0
     ELSE IF r_template.t # "str"
     THEN r_pc' = "returned" /\ r_text' = r_template /\ r_passes' = 1
     ELSE r_pc' = "loop" /\ r_text' = r_template /\ r_passes' = 0
  /\ UNCHANGED <<r_template, r_ctx, r_prev>>
  /\ UNCHANGED <<d_pc, d_step, d_ctx, d_env, d_result>>
  /\ UNCHANGED rvars

\* Faulty variant: the loop has no bound on its passes.
ResolvePassUnbounded ==
  /\ r_pc = "loop"
  /\ LET new_text == SubstPass(r_text.v, r_ctx)
     IN /\ r_passes' = r_passes + 1
        /\ IF new_text = r_text.v
           THEN r_pc' = "returned" /\ r_text' = r_text
           ELSE r_pc' = "loop" /\ r_text' = Str(new_text)
  /\ UNCHANGED <<r_template, r_ctx, r_prev>>
  /\ UNCHANGED <<d_pc, d_step, d_ctx, d_env, d_result>>
  /\ UNCHANGED rvars

\* One iteration of "for _ in range(5)": a re.sub pass, break if it changed
\* nothing; the loop ends after the fifth.
ResolvePass ==
  /\ r_pc = "loop"
  /\ r_passes < ResolverPasses
  /\ LET new_text == SubstPass(r_text.v, r_ctx)
     IN /\ r_passes' = r_passes + 1
        /\ IF new_text = r_text.v
           THEN r_pc' = "returned" /\ r_text' = r_text
           ELSE /\ r_text' = Str(new_text)
                /\ r_pc' = IF r_passes + 1 = ResolverPasses THEN "returned" ELSE "loop"
  /\ UNCHANGED <<r_template, r_ctx, r_prev>>
  /\ UNCHANGED <<d_pc, d_step, d_ctx, d_env, d_result>>
  /\ UNCHANGED rvars

\* The value returned is resolved again, with the same context.
ResolveAgain ==
  /\ r_pc = "returned"
  /\ ~r_prev.some
  /\ r_prev' = Output(r_text)
  /\ r_template' = r_text
  /\ r_pc' = "call"
  /\ r_text' = None
  /\ r_passes' = 0
  /\ UNCHANGED r_ctx
  /\ UNCHANGED <<d_pc, d_step, d_ctx, d_env, d_result>>
  /\ UNCHANGED rvars

ResolveNext ==
  \/ ResolveCall
  \/ ResolvePass
  \/ ResolveAgain
SpecResolve == ResolveInit /\ [][ResolveNext]_vars

\* ---------------------------------------------------------------------------
\* The Plan Runner (MainOrchestrator).
\* ---------------------------------------------------------------------------
History ==
  [dispatched |-> dispatched, returned_ok |-> returned_ok, failed |-> failed, outcome |-> outcome,
   plan_ctx |-> plan_ctx]
NoHistory ==
  [dispatched |-> {}, returned_ok |-> {}, failed |-> {}, outcome |-> {}, plan_ctx |-> EmptyDict]
RunnerState ==
  [busy |-> is_busy, plan |-> current_plan, idx |-> current_step_index,
   ctx |-> execution_context, timer |-> timer_active]
SetRunner(st) ==
  /\ is_busy' = st.busy
  /\ current_plan' = st.plan
  /\ current_step_index' = st.idx
  /\ execution_context' = st.ctx
  /\ timer_active' = st.timer

\* Faulty variant: the merge never deletes a key.
MergeResultKeepsNull(ctx, r) ==
  IF r.is_none \/ DOMAIN r.data = {} THEN ctx ELSE Update(ctx, r.data)

\* The merge of a step's result data into the execution context.
MergeResult(ctx, r) ==
  IF r.is_none \/ DOMAIN r.data = {} THEN ctx
  ELSE LET keys_to_clear == {k \in DOMAIN r.data : r.data[k] = None /\ k \in DOMAIN ctx}
           cleared == [k \in (DOMAIN ctx) \ keys_to_clear |-> ctx[k]]
           result_data == [k \in (DOMAIN r.data) \ keys_to_clear |-> r.data[k]]
       IN Update(cleared, result_data)

\* Faulty variant: finishing a plan also forgets the execution context.
FinishPlanExecutionClearsContext(st) ==
  [st EXCEPT !.busy = FALSE, !.plan = <<>>, !.idx = 0, !.ctx = EmptyDict]

\* _finish_plan_execution
FinishPlanExecution(st) == [st EXCEPT !.busy = FALSE, !.plan = <<>>, !.idx = 0]

\* Faulty variant: a failed step's result data is not merged.
StepReturnedSkipsFailedMerge(st, r) ==
  IF r.success
  THEN [st EXCEPT !.ctx = MergeResult(st.ctx, r), !.idx = st.idx + 1, !.timer = TRUE]
  ELSE FinishPlanExecution(st)

\* Faulty variant: the step timer is not started after a successful step.
StepReturnedLeavesTimerIdle(st, r) ==
  LET merged == [st EXCEPT !.ctx = MergeResult(st.ctx, r)]
  IN IF r.success
     THEN [merged EXCEPT !.idx = st.idx + 1]
     ELSE FinishPlanExecution(merged)

\* _execute_next_plan_step from the return of execute_action on.
StepReturned(st, r) ==
  LET merged == [st EXCEPT !.ctx = MergeResult(st.ctx, r)]
  IN IF r.success
     THEN [merged EXCEPT !.idx = st.idx + 1, !.timer = TRUE]
     ELSE FinishPlanExecution(merged)

ResultData(r) == IF r.is_none THEN EmptyDict ELSE r.data

\* execute_action call <<pno, idx>> returns r (or raises) in a runner whose
\* fields are st.
Complete(handler, st, r, pno, idx, hist, cur) ==
  IF r.raised
  THEN /\ SetRunner(st)
       /\ ev' = Event(handler, "raise", pno, idx, FALSE, EmptyDict, st.ctx, st.idx, 0)
       /\ returned_ok' = hist.returned_ok
       /\ failed' = hist.failed
       /\ outcome' = hist.outcome
       /\ plan_ctx' = hist.plan_ctx
  ELSE /\ SetRunner(StepReturned(st, r))
       /\ ev' = Event(handler, "step", pno, idx, r.success, ResultData(r), st.ctx, st.idx,
                      IF r.success THEN 0 ELSE st.idx + 1)
       /\ returned_ok' = IF r.success /\ pno = cur THEN hist.returned_ok \cup {idx}
                                                         ELSE hist.returned_ok
       /\ failed' = IF ~r.success /\ pno = cur THEN hist.failed \cup {idx} ELSE hist.failed
       /\ outcome' = IF r.success THEN hist.outcome ELSE hist.outcome \cup {"halted"}
       /\ plan_ctx' = IF StepReturned(st, r).plan = <<>> THEN StepReturned(st, r).ctx
                      ELSE IF pno = cur THEN MergeResult(hist.plan_ctx, r)
                      ELSE hist.plan_ctx

\* What _ensure_creds_ready_for_action and get_credential meet in the store.
Stage(sto) ==
  IF ~sto.initialized THEN "setup"
  ELSE IF ~sto.unlocked THEN "unlock"
  ELSE IF ~sto.creds.some THEN "service"
  ELSE "ready"
StoreEnv(sto) ==
  [BaseEnv EXCEPT !.store_initialized = sto.initialized, !.store_unlocked = sto.unlocked,
                  !.creds = IF sto.unlocked THEN sto.creds ELSE NoCreds, !.user_input = NoInput]
AllPresent(e) ==
  /\ e.has_os /\ e.has_perception /\ e.has_accessibility
  /\ e.has_gemini /\ e.has_credman /\ e.has_callback
StepEnvs(step) ==
  IF TypeName(Get(step, "action_type")) = "get_credentials_for_service"
  THEN {StoreEnv(store)}
  ELSE {e \in EnvsFor(TypeName(Get(step, "action_type"))) : AllPresent(e) /\ e.activate_ok}
NeedsPrompt(step) ==
  TypeName(Get(step, "action_type")) = "get_credentials_for_service" /\ Stage(store) # "ready"
Frame(pno, idx, step, stage, env) ==
  [pno |-> pno, idx |-> idx, step |-> step, stage |-> stage, env |-> env, open |-> TRUE]

\* _execute_next_plan_step, entered with the runner's fields being st.
ExecuteNextPlanStep(handler, st, pno, hist) ==
  IF st.idx < Len(st.plan)
  THEN LET action_step == st.plan[st.idx + 1]
       IN /\ dispatched' = hist.dispatched \cup {st.idx}
          /\ IF NeedsPrompt(action_step)
             THEN /\ stack' = Append(stack, Frame(pno, st.idx, action_step, Stage(store), StoreEnv(store)))
                  /\ dialog_loop' = Len(stack) + 1
                  /\ dialog_data' = NoResponse
                  /\ SetRunner(st)
                  /\ ev' = Event(handler, "blocked", pno, st.idx, FALSE, EmptyDict, st.ctx, st.idx, 0)
                  /\ returned_ok' = hist.returned_ok
                  /\ failed' = hist.failed
                  /\ outcome' = hist.outcome
                  /\ plan_ctx' = hist.plan_ctx
                  /\ UNCHANGED store
             ELSE /\ \E env \in StepEnvs(action_step) :
                       Complete(handler, st, ExecuteAction(action_step, st.ctx, env), pno, st.idx, hist, pno)
                  /\ UNCHANGED <<stack, store, dialog_loop, dialog_data>>
  ELSE /\ SetRunner(FinishPlanExecution(st))
       /\ ev' = PlainEvent(handler, "completed")
       /\ dispatched' = hist.dispatched
       /\ returned_ok' = hist.returned_ok
       /\ failed' = hist.failed
       /\ outcome' = hist.outcome \cup {"completed"}
       /\ plan_ctx' = st.ctx
       /\ UNCHANGED <<stack, store, dialog_loop, dialog_data>>

\* What NLUAgent.parse_command returns.
NluResults ==
  {[intent |-> "nlu_error", entities |-> EmptyDict],
   [intent |-> "unknown_command", entities |-> EmptyDict],
   [intent |-> "achieve_goal", entities |-> EmptyDict],
   [intent |-> "open_application", entities |-> D1("application_name", S("Calculator"))]}
  \cup {[intent |-> "achieve_goal", entities |-> e] : e \in EntitySets}
\* What PlanningAgent.create_plan_for_goal returns.
ErrorPlan == <<Step("error", P1("message", S("Planner no response.")))>>
PlannerResults == Plans \cup {ErrorPlan, <<>>}

ValidateNluResult(parsed_command) ==
  /\ parsed_command.intent \notin {"nlu_error", "nlu_parsing_error"}
  /\ (parsed_command.intent = "achieve_goal"
        => Truthy(Get(parsed_command.entities, "goal_description")))
ValidatePlan(plan) ==
  /\ plan # <<>>
  /\ Truthy(Get(plan[1], "action_type"))
  /\ Get(plan[1], "action_type") # S("error")

\* The context after handle_user_command merged the NLU entities into it.
MergeEntities(ctx, nlu_entities) ==
  LET merged == Update(ctx, nlu_entities)
      app_hint == Or(Or(Get(nlu_entities, "application_hint"), Get(nlu_entities, "tool_hint")),
                     Get(nlu_entities, "application_name"))
  IN IF Truthy(app_hint) /\ Get(merged, "last_opened_app_name") # app_hint
     THEN Del(Put(merged, "last_opened_app_name", app_hint), "last_opened_window_title")
     ELSE merged

\* A handler that ends without calling _execute_next_plan_step, the terminal
\* reports made so far being out.
EndWith(st, handler, kind, out) ==
  /\ SetRunner(st)
  /\ ev' = PlainEvent(handler, kind)
  /\ outcome' = out
  /\ plan_ctx' = IF st.plan = <<>> THEN st.ctx ELSE plan_ctx
  /\ UNCHANGED <<stack, store, dialog_loop, dialog_data, plan_no, dispatched, returned_ok, failed>>
EndHandler(st, handler, kind) == EndWith(st, handler, kind, outcome)

\* Faulty variant: is_busy is not reset when the plan is rejected.
AcceptCommandBusyAfterPlanError ==
  \E parsed_command \in NluResults :
    LET st0 == [RunnerState EXCEPT !.busy = TRUE, !.plan = <<>>, !.idx = 0]
        st1 == [st0 EXCEPT !.ctx = MergeEntities(st0.ctx, parsed_command.entities)]
    IN IF ~ValidateNluResult(parsed_command)
       THEN EndHandler([st0 EXCEPT !.busy = FALSE], "command", "nlu_error")
       ELSE IF parsed_command.intent = "unknown_command"
       THEN EndHandler([st1 EXCEPT !.busy = FALSE], "command", "unknown_command")
       ELSE IF parsed_command.intent # "achieve_goal"
       THEN EndHandler(st1, "command", "raise")
       ELSE \E plan_to_execute \in PlannerResults :
              IF ~ValidatePlan(plan_to_execute)
              THEN EndHandler(st1, "command", "plan_error")
              ELSE /\ plan_no < MaxPlans
                   /\ plan_no' = plan_no + 1
                   /\ ExecuteNextPlanStep("command", [st1 EXCEPT !.plan = plan_to_execute],
                                          plan_no + 1, [NoHistory EXCEPT !.plan_ctx = st1.ctx])

\* handle_user_command past its is_busy check.
AcceptCommand ==
  \E parsed_command \in NluResults :
    LET st0 == [RunnerState EXCEPT !.busy = TRUE, !.plan = <<>>, !.idx = 0]
        st1 == [st0 EXCEPT !.ctx = MergeEntities(st0.ctx, parsed_command.entities)]
    IN IF ~ValidateNluResult(parsed_command)
       THEN EndHandler([st0 EXCEPT !.busy = FALSE], "command", "nlu_error")
       ELSE IF parsed_command.intent = "unknown_command"
       THEN EndHandler([st1 EXCEPT !.busy = FALSE], "command", "unknown_command")
       ELSE IF parsed_command.intent # "achieve_goal"
       THEN EndHandler(st1, "command", "raise")
       ELSE \E plan_to_execute \in PlannerResults :
              IF ~ValidatePlan(plan_to_execute)
              THEN EndHandler([st1 EXCEPT !.busy = FALSE], "command", "plan_error")
              ELSE /\ plan_no < MaxPlans
                   /\ plan_no' = plan_no + 1
                   /\ ExecuteNextPlanStep("command", [st1 EXCEPT !.plan = plan_to_execute],
                                          plan_no + 1, [NoHistory EXCEPT !.plan_ctx = st1.ctx])

\* Faulty variant: the is_busy check is missing.
HandleUserCommandNoBusyCheck ==
  /\ AcceptCommand
  /\ UNCHANGED dvars

\* handle_user_command
HandleUserCommand ==
  /\ IF is_busy
     THEN EndHandler(RunnerState, "command", "rejected")
     ELSE AcceptCommand
  /\ UNCHANGED dvars

\* The step timer's timeout: _execute_next_plan_step
TimerFire ==
  /\ timer_active
  /\ ExecuteNextPlanStep("timer", [RunnerState EXCEPT !.timer = FALSE], plan_no, History)
  /\ UNCHANGED plan_no
  /\ UNCHANGED dvars

\* The terminal reports after a stop request halted the plan the runner held.
Stopped == IF current_plan # <<>> THEN outcome \cup {"stopped"} ELSE outcome

\* Faulty variant: the plan and the cursor are kept.
HandleStopRequestKeepsPlan ==
  /\ LET st == [RunnerState EXCEPT !.timer = FALSE]
     IN IF is_busy \/ current_plan # <<>>
        THEN EndWith([st EXCEPT !.busy = FALSE], "stop", "stopped", Stopped)
        ELSE EndHandler(st, "stop", "no_plan")
  /\ UNCHANGED dvars

\* Faulty variant: the pending step timer is left running.
HandleStopRequestKeepsTimer ==
  /\ IF is_busy \/ current_plan # <<>>
     THEN EndWith(FinishPlanExecution(RunnerState), "stop", "stopped", Stopped)
     ELSE EndHandler(RunnerState, "stop", "no_plan")
  /\ UNCHANGED dvars

\* handle_stop_request
HandleStopRequest ==
  /\ LET st == [RunnerState EXCEPT !.timer = FALSE]
     IN IF is_busy \/ current_plan # <<>>
        THEN EndWith(FinishPlanExecution(st), "stop", "stopped", Stopped)
        ELSE EndHandler(st, "stop", "no_plan")
  /\ UNCHANGED dvars

\* The blocked execute_action call f goes on with collaborator answers env and
\* returns.
ResumeReturn(f, env, sto, resp) ==
  /\ stack' = SubSeq(stack, 1, Len(stack) - 1)
  /\ store' = sto
  /\ dialog_loop' = 0
  /\ dialog_data' = resp
  /\ Complete("answer", RunnerState, ExecuteAction(f.step, execution_context, env), f.pno, f.idx,
              History, plan_no)
  /\ UNCHANGED <<plan_no, dispatched>>
\* The blocked call f goes on to ask for the service's credentials.
ResumePrompt(f, env, sto) ==
  /\ stack' = [stack EXCEPT ![Len(stack)] = Frame(f.pno, f.idx, f.step, "service", env)]
  /\ store' = sto
  /\ dialog_loop' = Len(stack)
  /\ dialog_data' = NoResponse
  /\ ev' = Event("answer", "blocked", f.pno, f.idx, FALSE, EmptyDict, execution_context,
                 current_step_index, 0)
  /\ UNCHANGED <<is_busy, current_plan, current_step_index, execution_context, timer_active,
                 plan_no, dispatched, returned_ok, failed, outcome, plan_ctx>>
\* After _ensure_creds_ready_for_action said ready: get_credential.
ResumeReady(f, env, sto, resp) ==
  IF sto.creds.some
  THEN ResumeReturn(f, [env EXCEPT !.creds = sto.creds], sto, resp)
  ELSE ResumePrompt(f, [env EXCEPT !.creds = NoCreds], sto)

\* The user answers (or cancels) the dialog on top; the response slot stores
\* the answer and quits the event loop the orchestrator's reference names.
PromptAnswer ==
  /\ stack # <<>>
  /\ stack[Len(stack)].open
  /\ LET f == stack[Len(stack)]
     IN IF f.stage = "service"
        THEN \E inp \in ServiceResponses :
               LET resp == ServiceResponse(inp)
                   given == Truthy(inp.s)
                   env1 == [f.env EXCEPT !.user_input = IF given THEN inp ELSE NoInput]
               IN IF dialog_loop # Len(stack)
                  THEN /\ dialog_data' = resp
                       /\ stack' = [stack EXCEPT ![Len(stack)].open = FALSE]
                       /\ ev' = PlainEvent("answer", "lost")
                       /\ UNCHANGED <<is_busy, current_plan, current_step_index, execution_context,
                                      timer_active, dialog_loop, store, plan_no, dispatched,
                                      returned_ok, failed, outcome, plan_ctx>>
                  ELSE IF given /\ inp.save
                  THEN \E saved \in {b \in BOOLEAN : b => store.unlocked} :
                         ResumeReturn(f, [env1 EXCEPT !.save_ok = saved],
                                      IF saved THEN [store EXCEPT !.creds = Creds(inp.u, inp.p)] ELSE store,
                                      resp)
                  ELSE ResumeReturn(f, env1, store, resp)
        ELSE \E pw \in MasterResponses :
               LET resp == MasterResponse(pw)
                   env1 == [f.env EXCEPT !.master_pwd = IF Truthy(pw) THEN pw ELSE None]
               IN IF dialog_loop # Len(stack)
                  THEN /\ dialog_data' = resp
                       /\ stack' = [stack EXCEPT ![Len(stack)].open = FALSE]
                       /\ ev' = PlainEvent("answer", "lost")
                       /\ UNCHANGED <<is_busy, current_plan, current_step_index, execution_context,
                                      timer_active, dialog_loop, store, plan_no, dispatched,
                                      returned_ok, failed, outcome, plan_ctx>>
                  ELSE IF ~Truthy(pw) THEN ResumeReturn(f, env1, store, resp)
                  ELSE IF f.stage = "setup"
                  THEN \E ok \in {b \in BOOLEAN : b => ~store.initialized} :
                         IF ok
                         THEN ResumeReady(f, [env1 EXCEPT !.setup_ok = TRUE],
                                          [initialized |-> TRUE, unlocked |-> TRUE, creds |-> NoCreds], resp)
                         ELSE ResumeReturn(f, [env1 EXCEPT !.setup_ok = FALSE], store, resp)
                  ELSE IF store.unlocked \/ (store.initialized /\ pw = RightMaster)
                  THEN ResumeReady(f, [env1 EXCEPT !.unlock_ok = TRUE],
                                   [store EXCEPT !.unlocked = TRUE], resp)
                  ELSE ResumeReturn(f, [env1 EXCEPT !.unlock_ok = FALSE], store, resp)
  /\ UNCHANGED dvars

Init == RunnerInit /\ DispatchIdle

\* The slots the Qt event loop runs.  While an execute_action call is blocked
\* in a prompt (stack # <<>>) its nested event loop delivers the same slots:
\* the step timer's timeout, queued command and stop signals (a voice command
\* is emitted from the voice thread), and the dialog's answer.
Next ==
  \/ HandleUserCommand
  \/ TimerFire
  \/ HandleStopRequest
  \/ PromptAnswer
Spec == Init /\ [][Next]_vars

\* The runner under the scheduling the Qt event loop gives it: a started step
\* timer fires (a single-shot QTimer whose timeout is connected to
\* _execute_next_plan_step), and an execute_action call blocked in a prompt
\* returns, its dialog being answered or cancelled.  These are
\* WF_vars(TimerFire) and WF_vars(PromptAnswer) written out: TimerFire is
\* enabled exactly when the timer is active and PromptAnswer exactly when the
\* dialog on top is open, and the steps of Next that leave ev.handler =
\* "timer" ("answer") are the steps of TimerFire (PromptAnswer).
PromptOpen == stack # <<>> /\ stack[Len(stack)].open
TimerFired == ev'.handler = "timer"
PromptAnswered == ev'.handler = "answer"
FairTimer == []<>(~timer_active) \/ []<><<TimerFired>>_vars
FairPrompt == []<>(~PromptOpen) \/ []<><<PromptAnswered>>_vars
SpecLive == Init /\ [][Next]_vars /\ FairTimer /\ FairPrompt

(***************************************************************************)
(* Properties of the Action Dispatcher (checked under SpecDispatch).        *)
(***************************************************************************)
Returned == d_pc = "returned" /\ ~d_result.raised
DType == TypeName(Get(d_step, "action_type"))
DParams == GetD(d_step, "parameters", EmptyDict)
DTargetWindow ==
  Or(Resolve(Get(DParams, "target_window_title"), d_ctx), EffectiveTargetTitle(DParams, d_ctx))
CallOps(calls) == {calls[i].op : i \in 1..Len(calls)}
IsError(data, m) == "error" \in DOMAIN data /\ data["error"].t = "msg" /\ data["error"].v[1].m = m

\* C5: whenever execute_action returns success=false, the returned data is a
\* mapping that contains an "error" key.
C5_FailureHasError ==
  (Returned /\ ~d_result.success) => (~d_result.is_none /\ "error" \in DOMAIN d_result.data)
\* A failed step whose branch set no error got the default one.
C5_Witness ==
  /\ Returned /\ ~d_result.success /\ DType = "navigate_url"
  /\ IsError(d_result.data, "Action failed.")

\* C6: execute_action never lets an exception escape; it always returns a pair.
C6_NeverRaises == d_pc = "returned" => ~d_result.raised

\* C7: for the three accessibility actions, when the accessibility tier cannot
\* resolve the target window the step fails with an error naming that window
\* and nothing but the window lookup was invoked.
WindowNotFoundErrors ==
  {"Window not found for accessibility click.", "Window not found for accessibility typing.",
   "Window not found for getting element text."}
C7_WindowNotFoundShortCircuit ==
  (/\ Returned /\ DType \in AccessibilityTypes
   /\ "_get_window" \in CallOps(d_result.calls) /\ ~d_env.win_found)
  => /\ ~d_result.success
     /\ "error" \in DOMAIN d_result.data
     /\ d_result.data["error"].v[1].m \in WindowNotFoundErrors
     /\ d_result.data["error"].v[1].a = <<DTargetWindow>>
     /\ CallOps(d_result.calls) = {"_get_window"}
C7_Witness ==
  /\ Returned /\ DType = "click_element_by_accessibility"
  /\ "_get_window" \in CallOps(d_result.calls) /\ ~d_env.win_found
  /\ VisionUsable(d_env.vision) /\ d_env.has_perception

\* C8: click with a resolved window, an accessibility tier that fails, and a
\* vision tier that succeeds returns success with both the accessibility
\* warning and the vision-derived info, and no error.
C8_Case ==
  /\ Returned /\ DType = "click_element_by_accessibility"
  /\ "find_element" \in CallOps(d_result.calls)
  /\ ~(d_env.elem_found /\ d_env.acc_click_ok)
  /\ d_env.has_perception /\ d_env.activate_ok
  /\ VisionUsable(d_env.vision) /\ d_env.click_at_ok
C8_ClickFallbackSucceeds ==
  C8_Case =>
    /\ d_result.success
    /\ "warning_accessibility_failed" \in DOMAIN d_result.data
    /\ "info" \in DOMAIN d_result.data
    /\ d_result.data["info"].v[1].m = "Clicked (fallback vision) at coordinates."
    /\ "error" \notin DOMAIN d_result.data
C8_Witness == C8_Case /\ ~d_env.elem_found /\ d_env.ss_bounds = WindowBounds

\* C9: an action type outside the handled set (or a missing one) fails with the
\* explicit unknown/unimplemented error and invokes no collaborator.
C9_UnknownTypeFails ==
  (d_pc = "returned" /\ DType \notin HandledTypes)
  => /\ ~d_result.raised /\ ~d_result.success
     /\ IsError(d_result.data, "Unknown or unimplemented action type")
     /\ d_result.data["error"].v[1].a = <<Get(d_step, "action_type")>>
     /\ d_result.calls = <<>>
C9_Witness ==
  /\ Returned /\ "action_type" \notin DOMAIN d_step /\ "parameters" \in DOMAIN d_step
  /\ IsError(d_result.data, "Unknown or unimplemented action type")

\* C22: in the four handlers that click from a vision result, the raw click
\* goes to (x_center, y_center) as they are when the screenshot bounds are the
\* full-screen sentinel (width -1), and to (left + x_center, top + y_center)
\* when the bounds are a region, whatever the region's size.
VisionClickTypes ==
  {"click_element_by_accessibility", "type_text_into_element_by_accessibility",
   "click_element_by_description", "type_text_into_element_by_description"}
ClickAtCalls(calls) == {calls[i].a : i \in {j \in 1..Len(calls) : calls[j].op = "click_at"}}
C22_Case ==
  /\ d_pc = "returned" /\ DType \in VisionClickTypes
  /\ ClickAtCalls(d_result.calls) # {}
  /\ d_env.ss_bounds.some
C22_CoordinateMapping ==
  C22_Case =>
    LET rx == d_env.vision.d["x_center"].v
        ry == d_env.vision.d["y_center"].v
        b == d_env.ss_bounds
    IN ClickAtCalls(d_result.calls) =
         {IF b.w = -1 THEN <<rx, ry>> ELSE <<b.l + rx, b.t + ry>>}
\* The vision-only type handler clicked inside a window's screenshot.
C22_Witness ==
  /\ C22_Case /\ DType = "type_text_into_element_by_description"
  /\ d_env.ss_bounds = WindowBounds
  /\ ClickAtCalls(d_result.calls) = {<<13, 24>>}

\* C24: type_text_into_element_by_accessibility, the window resolved and
\* accessibility found no matching element, vision backend present: the result
\* records the warning_accessibility_failed warning and the vision strategy was
\* attempted (the window was activated or the element was looked up by vision).
VisionAttemptOps == {"activate_window", "get_element_coordinates_via_vision"}
ElementNotFoundCase(at) ==
  /\ Returned /\ DType = at /\ d_env.has_perception
  /\ "find_element" \in CallOps(d_result.calls) /\ ~d_env.elem_found
FellBackToVision ==
  /\ ~d_result.is_none /\ "warning_accessibility_failed" \in DOMAIN d_result.data
  /\ CallOps(d_result.calls) \cap VisionAttemptOps # {}
C24_TypeFallsBackToVision ==
  ElementNotFoundCase("type_text_into_element_by_accessibility") => FellBackToVision

\* C25: get_element_text_by_accessibility, the window resolved and the element
\* was not found by accessibility or its text could not be read, vision backend
\* present: the result records the warning and the vision strategy was attempted.
TextUnreadableCase ==
  /\ Returned /\ DType = "get_element_text_by_accessibility" /\ d_env.has_perception
  /\ "get_element_properties" \in CallOps(d_result.calls) /\ ~d_result.success
C25_ReadTextFallsBackToVision ==
  (ElementNotFoundCase("get_element_text_by_accessibility") \/ TextUnreadableCase)
    => FellBackToVision

\* C26: click/type by accessibility, the accessibility tier failed and the
\* vision fallback then failed too: the step returns success=false and the
\* "error" string holds the accessibility failure reason as well as the vision
\* failure reason.
VisionFailureReasons ==
  {"PerceptionAgent unavailable for fallback.",
   "Could not activate window for vision fallback.",
   "Vision fallback: Element not found.",
   "Vision fallback click failed at coordinates.",
   "Vision fallback click failed.",
   "Vision fallback type failed after click."}
Reasons(x) == {x.v[i].m : i \in 1..Len(x.v)}
BothTiersFailed ==
  /\ Returned /\ ~d_result.success /\ ~d_result.is_none
  /\ DType \in {"click_element_by_accessibility", "type_text_into_element_by_accessibility"}
  /\ "warning_accessibility_failed" \in DOMAIN d_result.data
C26_CombinedFailureReasons ==
  BothTiersFailed =>
    /\ "error" \in DOMAIN d_result.data /\ d_result.data["error"].t = "msg"
    /\ Reasons(d_result.data["error"]) \cap VisionFailureReasons # {}
    /\ Reasons(d_result.data["warning_accessibility_failed"]) \subseteq Reasons(d_result.data["error"])

\* C27: in the click/type accessibility fallbacks and the vision-only click/type
\* handlers, when an effective target window exists and activating it fails the
\* step returns success=false with an error naming the activation failure and
\* neither the vision locate nor a raw click or type was invoked; a failed
\* vision attempt's error tells which of the three classes it belongs to:
\* window activation failed, element not found by vision, click/type failed
\* after the element was found.
VisionStrategyTypes ==
  {"click_element_by_accessibility", "type_text_into_element_by_accessibility",
   "click_element_by_description", "type_text_into_element_by_description"}
ActivationFailedReasons ==
  {"Could not activate window for vision fallback.", "Could not activate window.",
   "Could not activate."}
NotFoundByVisionReasons ==
  {"Vision fallback: Element not found.", "Element (vision) not found.",
   "Element (vision) for typing not found."}
ClickOrTypeFailedReasons ==
  {"Vision fallback click failed at coordinates.", "Vision fallback click failed.",
   "Vision fallback type failed after click.", "Failed vision click at coordinates.",
   "Failed vision click before typing.", "Failed type after vision click."}
\* The class of a failed vision attempt, read off the last collaborator call.
FailureClass(calls) ==
  IF calls = <<>> THEN "none"
  ELSE CASE calls[Len(calls)].op = "activate_window" -> "activation"
         [] calls[Len(calls)].op = "get_element_coordinates_via_vision" -> "not_found"
         [] calls[Len(calls)].op \in {"click_at", "type_text"} -> "click_or_type"
         [] OTHER -> "none"
\* The class an error string names.
ErrorClass(data) ==
  IF "error" \notin DOMAIN data \/ data["error"].t # "msg" THEN "none"
  ELSE CASE Reasons(data["error"]) \cap ActivationFailedReasons # {} -> "activation"
         [] Reasons(data["error"]) \cap NotFoundByVisionReasons # {} -> "not_found"
         [] Reasons(data["error"]) \cap ClickOrTypeFailedReasons # {} -> "click_or_type"
         [] OTHER -> "none"
ActivationFailedCase ==
  /\ Returned /\ DType \in VisionStrategyTypes
  /\ "activate_window" \in CallOps(d_result.calls) /\ ~d_env.activate_ok
C27_ActivationFailureFatal ==
  /\ ActivationFailedCase =>
       /\ ~d_result.success /\ ~d_result.is_none
       /\ ErrorClass(d_result.data) = "activation"
       /\ CallOps(d_result.calls)
            \cap {"get_element_coordinates_via_vision", "click_at", "type_text"} = {}
  /\ (Returned /\ DType \in VisionStrategyTypes /\ ~d_result.success
        /\ FailureClass(d_result.calls) # "none")
       => (~d_result.is_none /\ ErrorClass(d_result.data) = FailureClass(d_result.calls))
\* The vision-only click handler could not activate the effective target window.
C27_Witness ==
  /\ ActivationFailedCase /\ DType = "click_element_by_description"
  /\ ~d_result.success /\ ErrorClass(d_result.data) = "activation"
  /\ CallOps(d_result.calls) = {"activate_window"}

\* C28: click_element_by_accessibility.  When accessibility finds and clicks
\* the element the step returns success=true with an info string naming the
\* clicked element and the window, and no window activation, vision locate or
\* raw click was invoked; the vision strategy is invoked only after the
\* accessibility tier of the same step was tried and failed.
VisionStrategyOps == {"activate_window", "get_element_coordinates_via_vision", "click_at"}
FirstCall(calls, ops) ==
  IF CallOps(calls) \cap ops = {} THEN Len(calls) + 1
  ELSE CHOOSE i \in 1..Len(calls) :
         calls[i].op \in ops /\ \A j \in 1..(i - 1) : calls[j].op \notin ops
AccessibilityClicked ==
  /\ Returned /\ DType = "click_element_by_accessibility"
  /\ "click_element" \in CallOps(d_result.calls) /\ d_env.acc_click_ok
C28_PrimaryTierFirst ==
  /\ AccessibilityClicked =>
       /\ d_result.success /\ ~d_result.is_none
       /\ d_result.data =
            D1("info", M("Clicked element in window via accessibility.",
                         <<Or(Resolve(Get(DParams, "element_name"), d_ctx),
                              Get(DParams, "automation_id")),
                           DTargetWindow>>))
       /\ CallOps(d_result.calls) \cap VisionStrategyOps = {}
  /\ (d_pc = "returned" /\ DType = "click_element_by_accessibility"
        /\ CallOps(d_result.calls) \cap VisionStrategyOps # {})
       => /\ FirstCall(d_result.calls, {"find_element"})
               < FirstCall(d_result.calls, VisionStrategyOps)
          /\ ~(d_env.elem_found /\ d_env.acc_click_ok)
\* 'Seven' in 'Calculator', the window title taken from the context.
C28_Witness ==
  /\ AccessibilityClicked /\ d_result.success
  /\ d_ctx = D1("last_opened_window_title", S("Calculator"))
  /\ Get(DParams, "element_name") = S("Seven")
  /\ DTargetWindow = S("Calculator")
  /\ CallOps(d_result.calls) = {"_get_window", "find_element", "click_element"}

\* C29: when a collaborator the action type requires is absent (accessibility
\* backend for the *_by_accessibility actions, vision backend for the
\* *_by_description and get_info_from_screen actions, generation backend for
\* generate_text_content, credential store and prompt callback for
\* get_credentials_for_service), execute_action returns success=false with an
\* error naming a missing collaborator and has invoked no collaborator operation.
MissingCollaborators(at, env) ==
  (IF at \in AccessibilityTypes /\ ~env.has_accessibility THEN {"AccessibilityService"} ELSE {})
  \cup (IF at \in VisionOnlyTypes \cup {"get_info_from_screen"} /\ ~env.has_perception
        THEN {"PerceptionAgent"} ELSE {})
  \cup (IF at = "generate_text_content" /\ ~env.has_gemini THEN {"GeminiService"} ELSE {})
  \cup (IF at = "get_credentials_for_service" /\ ~env.has_credman THEN {"CredMan"} ELSE {})
  \cup (IF at = "get_credentials_for_service" /\ ~env.has_callback THEN {"Orch CB"} ELSE {})
\* The collaborator an error string names.
NamedCollaborator(data) ==
  IF "error" \notin DOMAIN data \/ data["error"].t # "msg" THEN "none"
  ELSE CASE data["error"].v[1].m = "AccessibilityService required." -> "AccessibilityService"
         [] data["error"].v[1].m \in {"PerceptionAgent (for vision) required.",
                                      "PerceptionAgent unavailable"} -> "PerceptionAgent"
         [] data["error"].v[1].m = "GeminiService required for generate_text_content" -> "GeminiService"
         [] data["error"].v[1].m = "CredMan missing." -> "CredMan"
         [] data["error"].v[1].m = "Orch CB missing." -> "Orch CB"
         [] OTHER -> "none"
C29_CapabilityCheckFirst ==
  (d_pc = "returned" /\ MissingCollaborators(DType, d_env) # {})
    => /\ ~d_result.raised /\ ~d_result.success /\ ~d_result.is_none
       /\ NamedCollaborator(d_result.data) \in MissingCollaborators(DType, d_env)
       /\ d_result.calls = <<>>
\* A well-formed accessibility type step dispatched without an accessibility backend.
C29_Witness ==
  /\ Returned /\ DType = "type_text_into_element_by_accessibility"
  /\ ~d_env.has_accessibility /\ d_env.win_found /\ d_env.elem_found
  /\ Get(DParams, "text_to_type") = S("hello")
  /\ NamedCollaborator(d_result.data) = "AccessibilityService"
  /\ d_result.calls = <<>>

\* C16: get_credentials_for_service on a locked store.  If the user cancels
\* the unlock prompt the step fails with the "store not ready" error and the
\* result holds no username or password key; if the unlock succeeds and the
\* store (left unlocked) holds a credential for the service the step succeeds and the result
\* holds the stored values under {service}_username and {service}_password.
C16_Locked ==
  /\ d_pc = "returned" /\ DType = "get_credentials_for_service"
  /\ d_env.has_credman /\ d_env.has_callback
  /\ Truthy(Get(DParams, "service_name")) /\ Get(DParams, "service_name").t = "str"
  /\ d_env.store_initialized /\ ~d_env.store_unlocked
C16_CredentialGating ==
  /\ (C16_Locked /\ ~Truthy(d_env.master_pwd))
       => /\ ~d_result.raised /\ ~d_result.success
          /\ IsError(d_result.data, "Cred store not ready.")
          /\ DOMAIN d_result.data = {"error"}
          /\ "get_credential" \notin CallOps(d_result.calls)
  /\ (C16_Locked /\ Truthy(d_env.master_pwd) /\ d_env.unlock_ok /\ ~d_env.lock_race
        /\ d_env.creds.some)
       => /\ ~d_result.raised /\ d_result.success
          /\ {KeyCat(Get(DParams, "service_name"), "_username"),
              KeyCat(Get(DParams, "service_name"), "_password")} \subseteq DOMAIN d_result.data
          /\ d_result.data[KeyCat(Get(DParams, "service_name"), "_username")] = d_env.creds.username
          /\ d_result.data[KeyCat(Get(DParams, "service_name"), "_password")] = d_env.creds.password
          /\ "error" \notin DOMAIN d_result.data
\* The prompt was cancelled although the store holds a credential for the service.
C16_Witness ==
  /\ C16_Locked /\ ~Truthy(d_env.master_pwd) /\ d_env.creds.some
  /\ "get_master_password_input_for_action" \in CallOps(d_result.calls)
  /\ ~d_result.success

\* C31: get_credentials_for_service re-queries the store's state on every
\* invocation and returns no secret read from a locked store: a lookup is
\* always preceded, in the same invocation, by the readiness check; when
\* another path locks the store between the readiness check and the read, the
\* result holds no stored credential, and a save of newly entered credentials
\* is reported with the "Failed to save." warning.
CredentialLookup ==
  /\ Returned /\ DType = "get_credentials_for_service"
  /\ "get_credential" \in CallOps(d_result.calls)
StoredSecretReturned ==
  /\ d_result.success /\ ~d_result.is_none
  /\ "info" \in DOMAIN d_result.data /\ d_result.data["info"].t = "msg"
  /\ d_result.data["info"].v[1].m = "Creds retrieved."
C31_UnlockedRecheckedOnAccess ==
  CredentialLookup =>
    /\ d_result.calls[1].op = "is_initialized"
    /\ EnsureCredsReady(d_env).ready
    /\ StoredSecretReturned => (~d_env.lock_race /\ d_env.creds.some)
    /\ d_env.lock_race =>
         /\ \A k \in DOMAIN d_result.data :
              d_result.data[k] \notin {d_env.creds.username, d_env.creds.password}
         /\ "add_or_update_credential" \in CallOps(d_result.calls)
              => "warning" \in DOMAIN d_result.data
\* The store was unlocked at the readiness check, locked before the read; the
\* user then entered credentials and asked to save them.
C31_Witness ==
  /\ CredentialLookup /\ d_env.lock_race /\ d_env.store_unlocked /\ d_env.creds.some
  /\ d_env.save_ok
  /\ "add_or_update_credential" \in CallOps(d_result.calls)
  /\ d_result.success /\ "warning" \in DOMAIN d_result.data

\* C32: a backend response that claims found=true while a numeric field of the
\* locate result (x_center, y_center, x_top_left, y_top_left, width, height,
\* confidence) is missing or not a number comes back from the PerceptionAgent
\* with found=false and a reasoning that differs from the backend's; and the
\* dispatcher issues a raw click only on a result with numeric x_center and
\* y_center.
NumericFields ==
  {"x_center", "y_center", "x_top_left", "y_top_left", "width", "height", "confidence"}
VisionLocateInvoked ==
  /\ d_pc = "returned"
  /\ "get_element_coordinates_via_vision" \in CallOps(d_result.calls)
  /\ d_env.vision_in.has_gemini /\ d_env.vision_in.screenshot.some
ClaimsFoundWithoutNumbers ==
  /\ VisionLocateInvoked
  /\ d_env.vision_in.raw.k = "object"
  /\ Truthy(Get(d_env.vision_in.raw.d, "found"))
  /\ \E f \in NumericFields : Get(d_env.vision_in.raw.d, f).t # "num"
C32_VisionResultValidated ==
  /\ ClaimsFoundWithoutNumbers =>
       /\ Get(d_env.vision.d, "found") = Bool(FALSE)
       /\ Get(d_env.vision.d, "reasoning") # Get(d_env.vision_in.raw.d, "reasoning")
  /\ (d_pc = "returned" /\ "click_at" \in CallOps(d_result.calls)
        /\ "get_element_coordinates_via_vision" \in CallOps(d_result.calls))
       => /\ Get(d_env.vision.d, "x_center").t = "num"
          /\ Get(d_env.vision.d, "y_center").t = "num"

\* C33: when the vision locate fails (generation backend absent, screenshot
\* capture failed, no response, text that is not JSON, JSON that is not an
\* object) the PerceptionAgent returns a result with found=false and a
\* reasoning string, and the step returns, without raising, success=false with
\* an error that includes that reasoning.
VisionLocateFailure ==
  /\ d_pc = "returned"
  /\ "get_element_coordinates_via_vision" \in CallOps(d_result.calls)
  /\ \/ ~d_env.vision_in.has_gemini
     \/ ~d_env.vision_in.screenshot.some
     \/ d_env.vision_in.raw.k \in {"none", "text", "value"}
ErrorArgs(data) ==
  IF "error" \in DOMAIN data /\ data["error"].t = "msg"
  THEN UNION {{data["error"].v[i].a[j] : j \in 1..Len(data["error"].v[i].a)} :
                i \in 1..Len(data["error"].v)}
  ELSE {}
C33_VisionLocateFailsSoft ==
  VisionLocateFailure =>
    /\ d_env.vision.some
    /\ Get(d_env.vision.d, "found") = Bool(FALSE)
    /\ Get(d_env.vision.d, "reasoning").t = "str" /\ Truthy(Get(d_env.vision.d, "reasoning"))
    /\ ~d_result.raised /\ ~d_result.success /\ ~d_result.is_none
    /\ Get(d_env.vision.d, "reasoning") \in ErrorArgs(d_result.data)

\* C34: wait.  A duration given as a number, a numeric string or a template
\* that resolves to a numeric string makes the step succeed after one sleep of
\* that duration, a negative duration being slept as 0; any other duration
\* (non-numeric string, unresolved template, a value that is neither number
\* nor string) makes the step fail with an error and no sleep.
WaitReturned == d_pc = "returned" /\ DType = "wait"
DurationParam == GetD(DParams, "duration_seconds", Num(1))
DurationText == IF DurationParam.t = "str" THEN Resolve(DurationParam, d_ctx) ELSE DurationParam
HasDuration == DurationParam.t = "num" \/ (DurationParam.t = "str" /\ IsNumeric(DurationText))
Duration == IF DurationParam.t = "num" THEN DurationParam.v ELSE FloatOf(DurationText)
C34_WaitDuration ==
  WaitReturned =>
    /\ ~d_result.raised
    /\ HasDuration =>
         /\ d_result.success
         /\ d_result.calls = <<Call("sleep", <<IF Duration < 0 THEN 0 ELSE Duration>>)>>
    /\ ~HasDuration =>
         /\ ~d_result.success /\ ~d_result.is_none /\ "error" \in DOMAIN d_result.data
         /\ d_result.calls = <<>>
\* A negative duration was slept as zero.
C34_Witness ==
  /\ WaitReturned /\ DurationParam = Num(-1)
  /\ d_result.success /\ d_result.calls = <<Call("sleep", <<0>>)>>

\* C40: generate_text_content asks the text-generation collaborator at most
\* once per step (exactly once when the prompt resolved), and the step
\* succeeds if and only if the prompt resolves to a non-empty string and the
\* collaborator returns a non-empty text; the returned text is then stored
\* unchanged under the store_result_as key (default generated_text_content).
GenerationReturned ==
  /\ d_pc = "returned" /\ DType = "generate_text_content"
  /\ d_env.has_gemini /\ ~d_result.raised
GenerationPrompt == Resolve(Get(DParams, "prompt_for_generation"), d_ctx)
GenerationCalls ==
  {i \in 1..Len(d_result.calls) : d_result.calls[i].op = "generate_text_response"}
PromptResolved == GenerationPrompt.t = "str" /\ Truthy(GenerationPrompt)
TextReturned == d_env.gen_text.t = "str" /\ Truthy(d_env.gen_text)
GenerationStoreKey == KeyOf(GetD(DParams, "store_result_as", S("generated_text_content")))
C40_GenerationOutcome ==
  GenerationReturned =>
    /\ Cardinality(GenerationCalls) = (IF PromptResolved THEN 1 ELSE 0)
    /\ d_result.success <=> (PromptResolved /\ TextReturned)
    /\ d_result.success => Get(d_result.data, GenerationStoreKey) = d_env.gen_text

\* C17: the error get_credentials_for_service returns when the master-password
\* prompt is cancelled differs from the error it returns, everything else
\* being equal, when a master password was supplied and unlock_store rejected it.
UnlockRejected(env) == [env EXCEPT !.master_pwd = S("master"), !.unlock_ok = FALSE]
C17_CancelDistinctFromRejection ==
  (C16_Locked /\ ~Truthy(d_env.master_pwd))
    => d_result.data["error"] # ExecuteAction(d_step, d_ctx, UnlockRejected(d_env)).data["error"]

\* C18: the value a context key ending in _password holds appears in no error
\* string execute_action returns and in no message it writes to the log.
Occurs(secret, x) ==
  /\ x.t = "str" /\ secret.t = "str" /\ secret.v # <<>>
  /\ \E i \in 1..Len(x.v) :
       /\ i + Len(secret.v) - 1 <= Len(x.v)
       /\ SubSeq(x.v, i, i + Len(secret.v) - 1) = secret.v
OccursInMsg(secret, x) ==
  /\ x.t = "msg"
  /\ \E i \in 1..Len(x.v) : \E j \in 1..Len(x.v[i].a) : Occurs(secret, x.v[i].a[j])
Surfaces(secret, r) ==
  \/ ~r.is_none /\ "error" \in DOMAIN r.data /\ OccursInMsg(secret, r.data["error"])
  \/ \E i \in 1..Len(r.calls) :
       r.calls[i].op = "log" /\ OccursInMsg(secret, r.calls[i].a[1])
C18_SecretsNeverSurface ==
  Returned => \A k \in DOMAIN d_ctx : EndsWithPassword(k) => ~Surfaces(d_ctx[k], d_result)

(***************************************************************************)
(* Properties of the Context Resolver (checked under SpecResolve).          *)
(***************************************************************************)
FirstCallReturned == r_pc = "returned" /\ ~r_prev.some /\ r_template.t = "str"
Count(tk, toks) == Cardinality({i \in 1..Len(toks) : toks[i] = tk})
UndefinedRefs(toks, ctx) ==
  {toks[i] : i \in {j \in 1..Len(toks) : toks[j].k # "lit" /\ toks[j].s \notin DOMAIN ctx}}
DefinedRefs(toks, ctx) ==
  {toks[i] : i \in {j \in 1..Len(toks) : toks[j].k # "lit" /\ toks[j].s \in DOMAIN ctx}}
PlainContext(ctx) == \A k \in DOMAIN ctx : ~(ctx[k].t = "str" /\ HasRef(ctx[k].v))
\* The stepwise loop returns what Resolve computes.
ResolveAgrees == r_pc = "returned" => r_text = Resolve(r_template, r_ctx)

\* C19 as stated: every reference of the template to a variable the context
\* does not define is in the returned text as it was written, whitespace
\* inside the braces included; references to defined variables are replaced.
C19_UndefinedLeftIntact ==
  FirstCallReturned =>
    /\ \A tk \in UndefinedRefs(r_template.v, r_ctx) :
         Count(tk, r_text.v) >= Count(tk, r_template.v)
    /\ PlainContext(r_ctx) => DefinedRefs(r_template.v, r_ctx) \cap DefinedRefs(r_text.v, r_ctx) = {}
\* C19: every reference of the template to a variable the context does not
\* define is in the returned text as a reference to that variable, written
\* {{name}} without the whitespace it may have had inside the braces;
\* references to defined variables are replaced.
RefsTo(n, toks) == Cardinality({i \in 1..Len(toks) : toks[i].k # "lit" /\ toks[i].s = n})
C19_UndefinedKeptCanonical ==
  FirstCallReturned =>
    /\ \A tk \in UndefinedRefs(r_template.v, r_ctx) :
         /\ Count(Ref(tk.s), r_text.v) >= RefsTo(tk.s, r_template.v)
         /\ Count(RefWs(tk.s), r_text.v) = 0
    /\ PlainContext(r_ctx) => DefinedRefs(r_template.v, r_ctx) \cap DefinedRefs(r_text.v, r_ctx) = {}
\* "{{ name }}{{a}}" with only a defined came back as "{{name}}1".
C19_Witness ==
  /\ FirstCallReturned
  /\ r_template = Str(<<RefWs("name"), Ref("a")>>)
  /\ r_ctx = D1("a", S("1"))
  /\ r_text = Str(<<Ref("name"), Lit("1")>>)

\* C20: a call makes at most 5 passes and has returned after the fifth; a
\* pass that changes nothing ends the call with the text as it is; and when
\* the value returned holds no resolvable reference (a pass over it changes
\* nothing), resolving it again returns the same value.
C20_Converged == r_prev.some /\ r_prev.v.t = "str" /\ SubstPass(r_prev.v.v, r_ctx) = r_prev.v.v
C20_BoundedAndIdempotent ==
  /\ [](r_passes <= ResolverPasses)
  /\ [](r_pc = "loop" => r_passes < ResolverPasses)
  /\ []((r_pc = "returned" /\ C20_Converged) => r_text = r_prev.v)
  /\ [][(r_pc = "loop" /\ SubstPass(r_text.v, r_ctx) = r_text.v)
          => (r_pc' = "returned" /\ r_text' = r_text)]_vars
\* A cyclic context: the call used all its passes and stopped.
C20_Witness ==
  /\ r_pc = "returned" /\ ~r_prev.some
  /\ r_passes = ResolverPasses
  /\ r_ctx = D2("a", Str(<<Ref("b")>>), "b", Str(<<Ref("a")>>))
  /\ r_template = Str(<<Ref("a")>>)
  /\ SubstPass(r_text.v, r_ctx) # r_text.v

\* C21: resolving None returns None, and a template that holds no reference
\* is returned as it is, whatever the context.
C21_IdentityCases ==
  (r_pc = "returned" /\ ~r_prev.some) =>
    /\ r_template.t = "none" => r_text = None
    /\ (r_template.t = "str" /\ ~HasRef(r_template.v)) => r_text = r_template
\* A template of literal text was resolved against a context that defines a.
C21_Witness ==
  /\ r_pc = "returned" /\ ~r_prev.some
  /\ r_template = Str(<<Lit("x"), Lit("x")>>) /\ r_ctx = D1("a", S("1"))
  /\ r_passes = 1

(***************************************************************************)
(* Properties of the Plan Runner (checked under Spec).                      *)
(***************************************************************************)
StepFailed == ev.kind = "step" /\ ~ev.success
\* The failed call is step k = ev.idx + 1 of the latest plan, the cursor was
\* at it when it returned, and the plan's steps 1..k-1 are the ones that
\* returned success before it.
FirstFailure ==
  /\ StepFailed
  /\ ev.pno = plan_no
  /\ ev.cursor = ev.idx
  /\ returned_ok = 0..(ev.idx - 1)
Idle == ~is_busy /\ current_plan = <<>> /\ current_step_index = 0

C2_DispatchOnlyAfterSuccess ==
  /\ \A i \in dispatched : \A j \in 0..(i - 1) : j \in returned_ok
  /\ \A f \in failed : \A i \in dispatched : i <= f

\* C3: when a step's result data maps a key K to null and K was in the context
\* before the step, K is absent from the context after the merge; every key the
\* result data maps to a non-null value is in the context with that value.
C3_NullClearing ==
  ev.kind = "step" =>
    \A K \in DOMAIN ev.data :
      /\ (ev.data[K] = None /\ K \in DOMAIN ev.pre_ctx) => K \notin DOMAIN execution_context
      /\ ev.data[K] # None => (K \in DOMAIN execution_context /\ execution_context[K] = ev.data[K])
C3_Witness ==
  /\ ev.kind = "step"
  /\ \E K \in DOMAIN ev.data : ev.data[K] = None /\ K \in DOMAIN ev.pre_ctx
  /\ \E K \in DOMAIN ev.data : ev.data[K] # None

\* C4: no merge leaves a key with a null value in the context: every key a
\* step's result data mapped to null is absent afterwards, whether or not it
\* was in the context before.
C4_NoNullInContext ==
  \A k \in DOMAIN execution_context : execution_context[k] # None

\* C10: a command received while is_busy is rejected, and leaves the plan, the
\* cursor and the context (and the rest of the runner) as they were.
C10_BusyRejects ==
  [][(is_busy /\ ev'.handler = "command")
       => /\ ev'.kind = "rejected"
          /\ UNCHANGED <<is_busy, current_plan, current_step_index, execution_context,
                         timer_active, stack, store, plan_no, dispatched, returned_ok, failed>>]_vars
C10_Witness ==
  /\ ev.handler = "command" /\ ev.kind = "rejected"
  /\ is_busy /\ current_plan # <<>>
  /\ stack # <<>> /\ stack[Len(stack)].open /\ stack[Len(stack)].pno = plan_no

\* C11: a stop request processed while a plan is active (is_busy, or a plan is
\* held) leaves the runner halted: not busy, empty plan, cursor 0, no step
\* timer pending.  A stop request processed when no plan is active leaves
\* is_busy, the plan, the cursor and the context as they were and only reports
\* that there is no plan to stop.
PlanActive == is_busy \/ current_plan # <<>>
DispatchOf(pno) ==
  /\ ev'.handler \in {"command", "timer"}
  /\ ev'.kind \in {"step", "blocked", "raise"}
  /\ ev'.pno = pno
C12_NoDispatchAfterStop ==
  [][("stopped" \in outcome /\ plan_no' = plan_no) => (~DispatchOf(plan_no) /\ dispatched' = dispatched)]_vars
\* The plan was stopped while its first step was blocked in a prompt; the step
\* then returned success and started the timer, and the timer's timeout found
\* no step to run.
C12_Witness ==
  /\ "stopped" \in outcome /\ dispatched = {0} /\ returned_ok = {0}
  /\ ev.handler = "timer" /\ ev.kind = "completed"

\* C13: at most one execute_action call is in flight, and the steps of the
\* latest plan are dispatched in index order with none skipped.
C13_OneAtATimeInOrder ==
  /\ Len(stack) <= 1
  /\ dispatched = 0..(Cardinality(dispatched) - 1)

\* C14: the context handed to the dispatch of step i of a plan is the context
\* at plan start with the merges of that plan's steps 0..i-1, all of which
\* have returned, and nothing else.
C14_MergeOrdering ==
  [][(ev'.handler = "timer" /\ DispatchOf(plan_no))
       => (execution_context = plan_ctx /\ returned_ok = 0..(ev'.idx - 1))]_vars

\* C15: "Plan completed." is reported only when the cursor has reached the end
\* of a plan all of whose steps were dispatched, once each and in order, and
\* returned success; a plan is not reported both completed and halted, so a
\* plan that was halted by a failure or a stop is never reported completed
\* afterwards.
C15_Completion ==
  [][/\ ev'.kind = "completed" =>
          /\ current_plan # <<>> /\ current_step_index = Len(current_plan)
          /\ dispatched = 0..(Len(current_plan) - 1) /\ returned_ok = dispatched
          /\ outcome = {}
     /\ "completed" \in outcome' => outcome' = {"completed"}]_vars

\* C23: when the plan the planner returns is rejected by _validate_plan (its
\* first step has action_type "error", or it is empty), the command ends with
\* no step dispatched, no plan held, the cursor at 0 and is_busy false.
C23_PlanningFailure ==
  [][ev'.kind = "plan_error" =>
       /\ ~is_busy' /\ current_plan' = <<>> /\ current_step_index' = 0
       /\ plan_no' = plan_no /\ dispatched' = dispatched /\ stack' = stack
       /\ ~DispatchOf(ev'.pno)]_vars
\* A rejected plan after an earlier plan had run a step.
C23_Witness ==
  /\ ev.handler = "command" /\ ev.kind = "plan_error"
  /\ ~is_busy /\ current_plan = <<>> /\ current_step_index = 0
  /\ plan_no = 1 /\ dispatched # {}

\* C30: execute_action leaves the context mapping it was passed as it found it;
\* the context changes only in the Plan Runner's merge after the step returned.
\* While an execute_action call is in progress (a frame is blocked in a prompt
\* and stays blocked) the execution context does not change.
CallInProgress == stack # <<>>
C30_ContextUnchangedDuringCall ==
  [][(CallInProgress /\ Len(stack') >= Len(stack))
       => execution_context' = execution_context]_vars

\* C35: the execution context persists across plans.  Finishing a plan
\* (Completed) and a stop request leave execution_context as it was; halting on
\* a failed step leaves it as the merge of that step's result data made it; and
\* the context a command's plan starts from is the context the previous plan
\* left, with only the command's NLU entities merged into it.
StepResult(e) == [is_none |-> FALSE, data |-> e.data]
PlanStartedBy(e) == e.handler = "command" /\ e.kind \in {"step", "blocked"}
C35_ContextPersistsAcrossPlans ==
  [][/\ ev'.kind \in {"completed", "stopped", "no_plan"}
          => execution_context' = execution_context
     /\ (ev'.kind = "step" /\ ~ev'.success)
          => execution_context' = MergeResult(ev'.pre_ctx, StepResult(ev'))
     /\ (ev'.handler # "command" /\ ev'.kind \in {"step", "blocked"})
          => ev'.pre_ctx = execution_context
     /\ PlanStartedBy(ev')
          => \E parsed_command \in NluResults :
               ev'.pre_ctx = MergeEntities(execution_context, parsed_command.entities)]_vars
\* A second plan starts from a context that holds what a step of the first
\* plan stored, the first plan having ended.
C35_Witness ==
  /\ plan_no = 2
  /\ PlanStartedBy(ev)
  /\ "found_text" \in DOMAIN ev.pre_ctx
  /\ stack = <<>> \/ stack[1].pno = 2

\* C36: in every state the cursor lies within the plan,
\* 0 <= current_step_index <= Len(current_plan), and a runner that is not
\* busy holds no plan and has its cursor at 0 - also after a stop request or a
\* new command was processed while a step was blocked in a credential prompt
\* and that step returned later.
C36_RunnerStateInvariant ==
  /\ 0 <= current_step_index
  /\ current_step_index <= Len(current_plan)
  /\ ~is_busy => (current_plan = <<>> /\ current_step_index = 0)

\* C37: every handle_user_command invocation that gets past the busy check and
\* does not start a plan - NLU error, unknown command, missing goal
\* description, planner error, and the intent other than achieve_goal that is
\* planned with planning_agent.create_plan - leaves is_busy false.
PlanNotStarted(e) ==
  /\ e.handler = "command"
  /\ \/ e.kind \in {"nlu_error", "unknown_command", "plan_error"}
     \/ e.kind = "raise" /\ e.pno = 0
C37_BusyFlagReleased == [][PlanNotStarted(ev') => ~is_busy']_vars

\* C38: each blocking prompt request returns to its caller the response
\* supplied for that request (or a cancellation); also when two requests
\* overlap, the response to a request's dialog makes that request return: no
\* request is still blocked after its dialog was answered, the response having
\* been stored in the shared slot while the event-loop reference named another
\* request's loop or none.
AnsweredButBlocked(f) == ~f.open
C38_PromptRoundTrip == \A i \in DOMAIN stack : ~AnsweredButBlocked(stack[i])

\* C39: under SpecLive (the step timer fires, every execute_action call
\* returns) every plan handle_user_command accepted eventually reaches a
\* terminal outcome, after which the runner is idle: is_busy false, the plan
\* empty, the cursor 0 and no step timer pending.
PlanAccepted == is_busy /\ current_plan # <<>>
RunnerAtRest ==
  /\ ~is_busy
  /\ current_plan = <<>>
  /\ current_step_index = 0
  /\ ~timer_active
C39_PlanLiveness == PlanAccepted ~> (RunnerAtRest /\ outcome # {})
\* A plan of more than one step ran to its end, each step having been started
\* by the step timer, and the runner is at rest.
C39_Witness ==
  /\ RunnerAtRest
  /\ ev.handler = "timer" /\ ev.kind = "completed"
  /\ outcome = {"completed"}
  /\ Cardinality(returned_ok) > 1
====
